---- MODULE Spec2Model ----
(***************************************************************************)
(* Scope-aware configuration resolution of csfw (package config):          *)
(* scopedService bound to (websiteID, storeID) resolving a route through   *)
(* the chain Store -> Website -> Default against a shared root Getter.     *)
(***************************************************************************)
EXTENDS Integers, Sequences, FiniteSets, TLC

(* ------------------------------ bounds --------------------------------- *)

\* largest website ID / store ID a service is bound to or a value is stored at
MaxID == 2
\* largest number of paths of the backend that hold an entry at one time
MaxEntries == 2
\* largest number of Store-scoped writes to a route counted for a subscriber
MaxWrites == 2
\* number of requests in flight at one time
MaxRequests == 2
\* largest value of the request counter
MaxCount == 3
\* largest number of conditions (raw ones and map entries) of one statement
MaxConds == 3

(* --------------------------- scope package ----------------------------- *)

\* scope.Scope levels, ordered Absent < Default < Website < Store
Absent == 0
Default == 1
Website == 2
Store == 3

Scopes == {Absent, Default, Website, Store}

\* scope.Perm is a bit set over the scope levels; Has tests one bit
Has(bits, s) == s \in bits

\* the levels from which the Store step of the chain may be taken
PermStoreReverse == {Store}
\* the levels from which the Website step of the chain may be taken
PermWebsiteReverse == {Store, Website}

(* ------------------------------ errors --------------------------------- *)

nil == "nil"
NotFound == "NotFound"
BackendFailure == "BackendFailure"
InvalidRoute == "InvalidRoute"

\* errors.IsNotFound: the error has the NotFound behaviour (nil has not)
IsNotFound(e) == e = NotFound

(* ------------------------------ cfgpath -------------------------------- *)

\* a route is its sequence of characters; "/" separates the three segments
Sep == "/"
RouteChars == {"a", "b", "c"}

ValidRoute == <<"a", Sep, "b", Sep, "c">>
\* one well-formed route and one with a single separator
Routes ==
    { ValidRoute,
      <<"a", Sep, "b">> }

\* exactly two separators, no empty segment, only characters of the set
IsValidRoute(r) ==
    /\ Len(r) > 0
    /\ Cardinality({i \in 1..Len(r) : r[i] = Sep}) = 2
    /\ r[1] # Sep /\ r[Len(r)] # Sep
    /\ \A i \in 1..(Len(r) - 1) : ~(r[i] = Sep /\ r[i + 1] = Sep)
    /\ \A i \in 1..Len(r) : r[i] \in RouteChars \cup {Sep}

\* cfgpath.New(r): the Default-scope path of a route, or an error
New(r) ==
    IF IsValidRoute(r)
    THEN [p |-> [route |-> r, scope |-> Default, id |-> 0], err |-> nil]
    ELSE [p |-> [route |-> <<>>, scope |-> Absent, id |-> 0], err |-> InvalidRoute]

\* Path.Bind(scope, id): a copy of the path bound to another scope and ID
Bind(p, s, id) == [p EXCEPT !.scope = s, !.id = id]

(* ------------------------------ backend -------------------------------- *)

Values == {"US", "DE"}
\* what a typed getter returns beside an error
Zero == "zero"
\* a path without entry
NoEntry == "none"
\* a path whose read fails in the backend
IOError == "ioerror"

\* int64 IDs: -1 stands for the negative ones
IDs == {-1} \cup (0..MaxID)

StoredPaths ==
    { [route |-> r, scope |-> Default, id |-> 0] : r \in {x \in Routes : IsValidRoute(x)} }
    \cup { [route |-> r, scope |-> s, id |-> i] :
             r \in {x \in Routes : IsValidRoute(x)}, s \in {Website, Store}, i \in 1..MaxID }

Types == {"Byte", "String", "Bool", "Float64", "Int", "Time"}

\* the override argument s ...scope.Scope
OverrideArgs == {<<>>} \cup { <<s>> : s \in Scopes }

VARIABLES
    db,        \* the root Getter's content: path -> value, NoEntry or IOError
    ss,        \* the scoped service: [websiteID, storeID, scp]
    pc,        \* "idle", "done" when a lookup has returned, "got" after Scope/Parent
    route,     \* the route argument of the last lookup
    ovr,       \* its override argument
    queries,   \* the paths it handed to the root Getter, in order
    v,         \* the value it returned
    err,       \* the error it returned
    step,      \* the step it returned from, or the method that filled got
    got        \* the (scope, ID) pair the last Scope() or Parent() returned

\* a lookup taken step by step, with writers in between
VARIABLES
    typ,       \* the method of the lookup in progress
    reads      \* what the backend held at each path when the lookup read it

concVars == <<typ, reads>>

(* ------------------------- cfgmock: its values ------------------------- *)

\* a Go value: its dynamic type and its text
Val(t, x) == [t |-> t, x |-> x]
NilValue == Val("nil", "")

\* the values a PathValue map hands to the storage
StoredVals ==
    { Val("string", "1"), Val("bool", "true"), Val("*string", "1"),
      Val("time", "2016"), NilValue }

\* the typed getters of the mock Service (it has no Byte)
MockTypes == {"String", "Bool", "Float64", "Int", "Time"}

\* the paths the mock is asked for: a route at its Default and at a Store scope
MockPaths ==
    { [route |-> ValidRoute, scope |-> Default, id |-> 0],
      [route |-> ValidRoute, scope |-> Store, id |-> 1] }

ErrKeyNotFound == "ErrKeyNotFound"
ConvError == "ConvError"
FuncError == "FuncError"

\* the With<T> functions a test applies: none, one answering by the path, one failing
Unset == "unset"
Funcs == {Unset, "byPath", "failing"}

\* the receivers that subscribe
Receivers == {"r1", "r2"}

VARIABLES
    mr,        \* the mock Service: [db, F, SubscriptionID, SubscriptionErr]
    ret,       \* the last call of a getter or of Subscribe and what it returned
    subs,      \* the (receiver, route) pairs Subscribe was called with
    owed,      \* per receiver, the Store-scoped writes to its route since it subscribed
    received   \* per receiver, the calls of its MessageConfig

mockVars == <<mr, ret, subs, owed, received>>

\* NewService() without options, before any call
NoCall ==
    [op |-> "none", p |-> <<>>, v |-> NilValue, err |-> nil, fcalls |-> 0, id |-> 0]
NewService ==
    [db |-> <<>>,
     F |-> [T \in MockTypes |-> Unset],
     SubscriptionID |-> 0,
     SubscriptionErr |-> nil]
NoMock ==
    /\ mr = NewService
    /\ ret = NoCall
    /\ subs = {}
    /\ owed = [r \in Receivers |-> 0]
    /\ received = [r \in Receivers |-> 0]

(* ----------------------- mw: request ID, its state --------------------- *)

Requests == 1..MaxRequests

\* what r.Header.Get(RequestIDHeader) gives: "" for an absent or empty header
IncomingIDs == {"", "abc"}

VARIABLES
    reqID,     \* the global counter
    prefix,    \* RequestIDService.prefix, "" before Init()
    reqs       \* per request: position, incoming header, id, response header,
               \* calls of NewID, calls of the wrapped handler, header it saw

reqVars == <<reqID, prefix, reqs>>

NoRequest ==
    [pc |-> "none", in |-> "", id |-> <<>>, out |-> <<>>,
     newIDs |-> 0, calls |-> 0, seen |-> <<>>]

NoMiddleware ==
    /\ reqID = 0
    /\ prefix = ""
    /\ reqs = [q \in Requests |-> NoRequest]

(* -------------------- mw: callers of NewID, their state ---------------- *)

\* the RequestIDService instances of one process
Instances == {"g1", "g2"}

VARIABLES
    prefixOf,  \* per instance, RequestIDService.prefix ("" before Init())
    callers,   \* per caller of NewID: position, instance, the value AddInt64 gave it
    issued     \* the IDs NewID has returned, in the order of the returns

idVars == <<prefixOf, callers, issued>>

NoCaller == [pc |-> "idle", inst |-> "g1", n |-> 0]

NoNewID ==
    /\ prefixOf = [i \in Instances |-> ""]
    /\ callers = [c \in Requests |-> NoCaller]
    /\ issued = <<>>

(* ---------------------- ctxjwt: middleware, its state ------------------ *)

\* raw tokens a request can carry
RawTokens == {"t1", "t2"}
\* store IDs of the requested store and of the store named in a token
StoreIDs == {1, 2}

VARIABLES
    blacklist, \* Service.Blacklist: the raw tokens it holds
    jwt        \* the request the middleware serves: position, what the
               \* collaborators answered, the context, the handlers called

jwtVars == <<blacklist, jwt>>

NoJWTRequest ==
    [pc |-> "idle",
     errHandler |-> "default",
     cfgLoaded |-> FALSE, cfgHandlerSet |-> FALSE,
     reqStore |-> 0,
     parsed |-> "none", valid |-> FALSE, raw |-> "", listed |-> FALSE,
     claim |-> "none",
     newStore |-> 0,
     ctxToken |-> FALSE, ctxErr |-> "", ctxStore |-> 0, ctxReplaced |-> FALSE,
     hf |-> 0, ehDefault |-> 0, ehScope |-> 0]

NoJWT ==
    /\ blacklist = {}
    /\ jwt = NoJWTRequest

(* ------------------- dbr: where fragments, their state ----------------- *)

\* a Go value handed to Eq or appended to the arguments: its kind, whether it
\* is a nil slice, its elements
GoVal(kind, isNil, elems) == [kind |-> kind, isNil |-> isNil, elems |-> elems]
Scalar(n) == GoVal("scalar", FALSE, <<n>>)

\* the values of an equality map: nil, a scalar, a nil slice, slices and
\* arrays of zero, one and two elements
EqValues ==
    { GoVal("nil", TRUE, <<>>), Scalar(7), GoVal("slice", TRUE, <<>>) }
    \cup { GoVal(k, FALSE, e) : k \in {"slice", "array"}, e \in {<<>>, <<1>>, <<1, 2>>} }

\* the keys of an equality map, in the order the range over the map yields them
EqKeys == <<"a", "b", "c", "d", "e">>

\* a whereFragment
Fragment(cond, values, eq) == [Condition |-> cond, Values |-> values, EqualityMap |-> eq]

\* ConditionRaw("id = ?", 1) and ConditionIsNull("n")
RawFragments ==
    { Fragment("id = ?", <<Scalar(1)>>, <<>>), Fragment("n IS NULL", <<>>, <<>>) }

VARIABLES
    frags,     \* the WhereFragments of the statement
    wout       \* what writeWhereFragmentsToSQL wrote for them, if it was called

whereVars == <<frags, wout>>

NotWritten == [called |-> FALSE, sql |-> <<>>, args |-> <<>>, any |-> FALSE, panicked |-> FALSE]

NoWhere ==
    /\ frags = <<>>
    /\ wout = NotWritten

(* ----------------- dbr: Delete and its listeners, state ---------------- *)

MaxListeners == 3
MaxToSQL == 2

\* what a listener does to the statement: OrderDir, OrderDir and
\* PropagationStopped = true, Where(ConditionRaw(...))
ListenerKinds == {"order", "stop", "where"}

\* the column a listener orders by and the condition it adds, by its position
Columns == <<"col1 DESC", "col2 DESC", "col3 DESC", "col4 DESC", "col5 DESC">>
Conditions == <<"store_id=?", "repetitive=?", "third=?", "fourth=?", "fifth=?">>

VARIABLES
    del        \* the Delete statement, its listeners and the ToSQL call in progress

delVars == <<del>>

\* DeleteFrom("tableA")
NewDelete ==
    [ Listeners |-> <<>>, OrderBys |-> <<>>, WhereFragments |-> <<>>,
      PropagationStopped |-> FALSE, stoppedAt |-> 0,
      pc |-> "idle", i |-> 0, calls |-> 0, log |-> <<>>,
      sql |-> <<>>, args |-> <<>> ]

NoDelete == del = NewDelete

(* ------------------- tableToStruct: generators, state ------------------ *)

MaxGenerators == 3

VARIABLES
    wg,        \* the counter of the WaitGroup of main
    mainPC,    \* where main is: "loop", "wait", "returned", or "exited" on os.Exit
    gens       \* the goroutines started by main, each with its position in run()

genVars == <<wg, mainPC, gens>>

NoGenerators ==
    /\ wg = 0
    /\ mainPC = "loop"
    /\ gens = <<>>

(* ------------- scoped service: two lookups compared, state ------------- *)

VARIABLES
    cmp        \* two lookups made one after the other on one service and backend

cmpVars == <<cmp>>

NotCompared == [case |-> "none"]

NoCompare == cmp = NotCompared

\* the variables declared after those of the generators
afterGen == <<cmpVars>>

\* the variables declared after those of the Delete statement
afterDelete == <<genVars, afterGen>>

\* the variables declared after those of the where fragments
afterWhere == <<delVars, afterDelete>>

\* the variables declared after those of the ctxjwt middleware
afterJWT == <<whereVars, afterWhere>>

\* the variables declared after those of NewID's callers
afterID == <<jwtVars, afterJWT>>

\* the variables of the specifications beside the scoped service, the mock and
\* the request ID middleware
restVars == <<idVars, afterID>>

RestIdle ==
    /\ NoNewID
    /\ NoJWT
    /\ NoWhere
    /\ NoDelete
    /\ NoGenerators
    /\ NoCompare

\* the variables outside the scoped service and its step-by-step lookup
others == <<mockVars, reqVars, restVars>>

\* the variables of the other specifications
beyond == <<concVars, others>>

vars == <<db, ss, pc, route, ovr, queries, v, err, step, got, beyond>>

\* Getter.<T>(p): found, NotFound for a path without entry, or the backend's error
rootGet(backend, T, p) ==
    IF p \notin DOMAIN backend \/ backend[p] = NoEntry THEN [v |-> Zero, err |-> NotFound]
    ELSE IF backend[p] = IOError THEN [v |-> Zero, err |-> BackendFailure]
    ELSE [v |-> backend[p], err |-> nil]

(* --------------------------- scopedService ----------------------------- *)

\* Scope testing the website ID before the store ID
Scope_websiteFirst(s) ==
    IF s.websiteID > 0 THEN <<Website, s.websiteID>>
    ELSE IF s.storeID > 0 THEN <<Store, s.storeID>>
    ELSE <<Default, 0>>

Scope(s) ==
    IF s.storeID > 0 THEN <<Store, s.storeID>>
    ELSE IF s.websiteID > 0 THEN <<Website, s.websiteID>>
    ELSE <<Default, 0>>

\* Parent deciding by the website ID
Parent_byWebsiteID(s) ==
    IF s.websiteID > 0 THEN <<Website, s.websiteID>> ELSE <<Default, 0>>

Parent(s) ==
    IF s.storeID > 0 THEN <<Website, s.websiteID>> ELSE <<Default, 0>>

\* newScopedService deriving the scope from the website ID first
newScopedService_websiteFirst(websiteID, storeID) ==
    [websiteID |-> websiteID, storeID |-> storeID,
     scp |-> IF websiteID > 0 THEN Website ELSE IF storeID > 0 THEN Store ELSE Default]

newScopedService(websiteID, storeID) ==
    LET s0 == [websiteID |-> websiteID, storeID |-> storeID, scp |-> Absent]
    IN  [s0 EXCEPT !.scp = Scope(s0)[1]]

\* effectiveScope taking an override only above Default
\* the override replacing the bound scope whatever its value
effectiveScope_anyValue(s, o) ==
    IF Len(o) > 0 THEN o[1] ELSE s.scp

effectiveScope_aboveDefault(s, o) ==
    IF Len(o) > 0 /\ o[1] > Default THEN o[1] ELSE s.scp

effectiveScope(s, o) ==
    IF Len(o) > 0 /\ o[1] > Absent THEN o[1] ELSE s.scp

\* isAllowedStore testing the bound scope and not the override
isAllowedStore_boundScope(s, o) ==
    s.storeID > 0 /\ Has(PermStoreReverse, s.scp)

isAllowedStore(s, o) ==
    s.storeID > 0 /\ Has(PermStoreReverse, effectiveScope(s, o))

\* isAllowedWebsite without the test of the website ID
isAllowedWebsite_anyID(s, o) ==
    Has(PermWebsiteReverse, effectiveScope(s, o))

isAllowedWebsite(s, o) ==
    s.websiteID > 0 /\ Has(PermWebsiteReverse, effectiveScope(s, o))

\* storeStep returning whatever the backend answers, NotFound too
storeStep_noFallback(s, T, p, o, backend) ==
    IF isAllowedStore(s, o)
    THEN LET q == Bind(p, Store, s.storeID)
             a == rootGet(backend, T, q)
         IN  [queried |-> <<q>>, v |-> a.v, err |-> a.err, ret |-> TRUE]
    ELSE [queried |-> <<>>, v |-> Zero, err |-> nil, ret |-> FALSE]

\* storeStep binding the store path to the website ID
storeStep_websiteID(s, T, p, o, backend) ==
    IF isAllowedStore(s, o)
    THEN LET q == Bind(p, Store, s.websiteID)
             a == rootGet(backend, T, q)
         IN  [queried |-> <<q>>, v |-> a.v, err |-> a.err,
              ret |-> (~IsNotFound(a.err) \/ a.err = nil)]
    ELSE [queried |-> <<>>, v |-> Zero, err |-> nil, ret |-> FALSE]

\* the store step of a lookup: the query and whether the method returns from it
storeStep(s, T, p, o, backend) ==
    IF isAllowedStore(s, o)
    THEN LET q == Bind(p, Store, s.storeID)
             a == rootGet(backend, T, q)
         IN  [queried |-> <<q>>, v |-> a.v, err |-> a.err,
              ret |-> (~IsNotFound(a.err) \/ a.err = nil)]
    ELSE [queried |-> <<>>, v |-> Zero, err |-> nil, ret |-> FALSE]

\* websiteStep that never returns: the chain goes on after a found value
websiteStep_neverReturns(s, T, p, o, backend) ==
    IF isAllowedWebsite(s, o)
    THEN LET q == Bind(p, Website, s.websiteID)
             a == rootGet(backend, T, q)
         IN  [queried |-> <<q>>, v |-> a.v, err |-> a.err, ret |-> FALSE]
    ELSE [queried |-> <<>>, v |-> Zero, err |-> nil, ret |-> FALSE]

\* websiteStep returning on a found value only: any error falls back
websiteStep_anyErrorFallsBack(s, T, p, o, backend) ==
    IF isAllowedWebsite(s, o)
    THEN LET q == Bind(p, Website, s.websiteID)
             a == rootGet(backend, T, q)
         IN  [queried |-> <<q>>, v |-> a.v, err |-> a.err, ret |-> (a.err = nil)]
    ELSE [queried |-> <<>>, v |-> Zero, err |-> nil, ret |-> FALSE]

\* websiteStep binding the website path to the store ID
websiteStep_storeID(s, T, p, o, backend) ==
    IF isAllowedWebsite(s, o)
    THEN LET q == Bind(p, Website, s.storeID)
             a == rootGet(backend, T, q)
         IN  [queried |-> <<q>>, v |-> a.v, err |-> a.err,
              ret |-> (~IsNotFound(a.err) \/ a.err = nil)]
    ELSE [queried |-> <<>>, v |-> Zero, err |-> nil, ret |-> FALSE]

\* websiteStep returning whatever the backend answers, NotFound too
websiteStep_noFallback(s, T, p, o, backend) ==
    IF isAllowedWebsite(s, o)
    THEN LET q == Bind(p, Website, s.websiteID)
             a == rootGet(backend, T, q)
         IN  [queried |-> <<q>>, v |-> a.v, err |-> a.err, ret |-> TRUE]
    ELSE [queried |-> <<>>, v |-> Zero, err |-> nil, ret |-> FALSE]

websiteStep(s, T, p, o, backend) ==
    IF isAllowedWebsite(s, o)
    THEN LET q == Bind(p, Website, s.websiteID)
             a == rootGet(backend, T, q)
         IN  [queried |-> <<q>>, v |-> a.v, err |-> a.err,
              ret |-> (~IsNotFound(a.err) \/ a.err = nil)]
    ELSE [queried |-> <<>>, v |-> Zero, err |-> nil, ret |-> FALSE]

\* defaultStep turning NotFound into the zero value without error
defaultStep_swallowsNotFound(s, T, p, o, backend) ==
    LET a == rootGet(backend, T, p)
    IN  [queried |-> <<p>>, v |-> a.v,
         err |-> IF IsNotFound(a.err) THEN nil ELSE a.err, ret |-> TRUE]

defaultStep(s, T, p, o, backend) ==
    LET a == rootGet(backend, T, p)
    IN  [queried |-> <<p>>, v |-> a.v, err |-> a.err, ret |-> TRUE]

\* the six typed methods, each as its own code: the outcome of one call
lookupByte(s, r, o, backend) ==
    LET n == New(r) IN
    IF n.err # nil
    THEN [queries |-> <<>>, v |-> Zero, err |-> n.err, step |-> "route"]
    ELSE
      LET st == storeStep(s, "Byte", n.p, o, backend) IN
      IF st.ret
      THEN [queries |-> st.queried, v |-> st.v, err |-> st.err, step |-> "store"]
      ELSE
        LET ws == websiteStep(s, "Byte", n.p, o, backend) IN
        IF ws.ret
        THEN [queries |-> st.queried \o ws.queried, v |-> ws.v, err |-> ws.err,
              step |-> "website"]
        ELSE
          LET df == defaultStep(s, "Byte", n.p, o, backend) IN
          [queries |-> st.queried \o ws.queried \o df.queried, v |-> df.v,
           err |-> df.err, step |-> "default"]

lookupString(s, r, o, backend) ==
    LET n == New(r) IN
    IF n.err # nil
    THEN [queries |-> <<>>, v |-> Zero, err |-> n.err, step |-> "route"]
    ELSE
      LET st == storeStep(s, "String", n.p, o, backend) IN
      IF st.ret
      THEN [queries |-> st.queried, v |-> st.v, err |-> st.err, step |-> "store"]
      ELSE
        LET ws == websiteStep(s, "String", n.p, o, backend) IN
        IF ws.ret
        THEN [queries |-> st.queried \o ws.queried, v |-> ws.v, err |-> ws.err,
              step |-> "website"]
        ELSE
          LET df == defaultStep(s, "String", n.p, o, backend) IN
          [queries |-> st.queried \o ws.queried \o df.queried, v |-> df.v,
           err |-> df.err, step |-> "default"]

lookupBool(s, r, o, backend) ==
    LET n == New(r) IN
    IF n.err # nil
    THEN [queries |-> <<>>, v |-> Zero, err |-> n.err, step |-> "route"]
    ELSE
      LET st == storeStep(s, "Bool", n.p, o, backend) IN
      IF st.ret
      THEN [queries |-> st.queried, v |-> st.v, err |-> st.err, step |-> "store"]
      ELSE
        LET ws == websiteStep(s, "Bool", n.p, o, backend) IN
        IF ws.ret
        THEN [queries |-> st.queried \o ws.queried, v |-> ws.v, err |-> ws.err,
              step |-> "website"]
        ELSE
          LET df == defaultStep(s, "Bool", n.p, o, backend) IN
          [queries |-> st.queried \o ws.queried \o df.queried, v |-> df.v,
           err |-> df.err, step |-> "default"]

lookupFloat64(s, r, o, backend) ==
    LET n == New(r) IN
    IF n.err # nil
    THEN [queries |-> <<>>, v |-> Zero, err |-> n.err, step |-> "route"]
    ELSE
      LET st == storeStep(s, "Float64", n.p, o, backend) IN
      IF st.ret
      THEN [queries |-> st.queried, v |-> st.v, err |-> st.err, step |-> "store"]
      ELSE
        LET ws == websiteStep(s, "Float64", n.p, o, backend) IN
        IF ws.ret
        THEN [queries |-> st.queried \o ws.queried, v |-> ws.v, err |-> ws.err,
              step |-> "website"]
        ELSE
          LET df == defaultStep(s, "Float64", n.p, o, backend) IN
          [queries |-> st.queried \o ws.queried \o df.queried, v |-> df.v,
           err |-> df.err, step |-> "default"]

lookupInt(s, r, o, backend) ==
    LET n == New(r) IN
    IF n.err # nil
    THEN [queries |-> <<>>, v |-> Zero, err |-> n.err, step |-> "route"]
    ELSE
      LET st == storeStep(s, "Int", n.p, o, backend) IN
      IF st.ret
      THEN [queries |-> st.queried, v |-> st.v, err |-> st.err, step |-> "store"]
      ELSE
        LET ws == websiteStep(s, "Int", n.p, o, backend) IN
        IF ws.ret
        THEN [queries |-> st.queried \o ws.queried, v |-> ws.v, err |-> ws.err,
              step |-> "website"]
        ELSE
          LET df == defaultStep(s, "Int", n.p, o, backend) IN
          [queries |-> st.queried \o ws.queried \o df.queried, v |-> df.v,
           err |-> df.err, step |-> "default"]

\* Time without its website step
lookupTime_noWebsiteStep(s, r, o, backend) ==
    LET n == New(r) IN
    IF n.err # nil
    THEN [queries |-> <<>>, v |-> Zero, err |-> n.err, step |-> "route"]
    ELSE
      LET st == storeStep(s, "Time", n.p, o, backend) IN
      IF st.ret
      THEN [queries |-> st.queried, v |-> st.v, err |-> st.err, step |-> "store"]
      ELSE
        LET df == defaultStep(s, "Time", n.p, o, backend) IN
        [queries |-> st.queried \o df.queried, v |-> df.v,
         err |-> df.err, step |-> "default"]

lookupTime(s, r, o, backend) ==
    LET n == New(r) IN
    IF n.err # nil
    THEN [queries |-> <<>>, v |-> Zero, err |-> n.err, step |-> "route"]
    ELSE
      LET st == storeStep(s, "Time", n.p, o, backend) IN
      IF st.ret
      THEN [queries |-> st.queried, v |-> st.v, err |-> st.err, step |-> "store"]
      ELSE
        LET ws == websiteStep(s, "Time", n.p, o, backend) IN
        IF ws.ret
        THEN [queries |-> st.queried \o ws.queried, v |-> ws.v, err |-> ws.err,
              step |-> "website"]
        ELSE
          LET df == defaultStep(s, "Time", n.p, o, backend) IN
          [queries |-> st.queried \o ws.queried \o df.queried, v |-> df.v,
           err |-> df.err, step |-> "default"]

\* a lookup that goes on with the path cfgpath.New returned beside its error
lookup_ignoresRouteError(s, T, r, o, backend) ==
    LET n == New(r)
        st == storeStep(s, T, n.p, o, backend)
        ws == websiteStep(s, T, n.p, o, backend)
        df == defaultStep(s, T, n.p, o, backend)
    IN  IF st.ret
        THEN [queries |-> st.queried, v |-> st.v, err |-> st.err, step |-> "store"]
        ELSE IF ws.ret
        THEN [queries |-> st.queried \o ws.queried, v |-> ws.v, err |-> ws.err,
              step |-> "website"]
        ELSE [queries |-> st.queried \o ws.queried \o df.queried, v |-> df.v,
              err |-> df.err, step |-> "default"]

\* the method of type T called on service s
lookup(s, T, r, o, backend) ==
    CASE T = "Byte" -> lookupByte(s, r, o, backend)
      [] T = "String" -> lookupString(s, r, o, backend)
      [] T = "Bool" -> lookupBool(s, r, o, backend)
      [] T = "Float64" -> lookupFloat64(s, r, o, backend)
      [] T = "Int" -> lookupInt(s, r, o, backend)
      [] T = "Time" -> lookupTime(s, r, o, backend)

(* ------------------------------ actions -------------------------------- *)

Init ==
    /\ db = [p \in StoredPaths |-> NoEntry]
    /\ ss = newScopedService(0, 0)
    /\ pc = "idle"
    /\ route = <<>>
    /\ ovr = <<>>
    /\ queries = <<>>
    /\ v = Zero
    /\ err = nil
    /\ step = "none"
    /\ got = <<Absent, 0>>
    /\ typ = "none"
    /\ reads = <<>>
    /\ NoMock
    /\ NoMiddleware
    /\ RestIdle

call == <<route, ovr, queries, v, err, step, got>>

\* a write of the backend: a value stored at a path
Set(p, val) ==
    /\ pc = "idle"
    /\ Cardinality({q \in StoredPaths : db[q] # NoEntry /\ q # p}) < MaxEntries
    /\ db' = [db EXCEPT ![p] = val]
    /\ UNCHANGED <<ss, pc, call>>
    /\ UNCHANGED beyond

\* the backend starts to fail on reads of a path
Fail(p) ==
    /\ pc = "idle"
    /\ Cardinality({q \in StoredPaths : db[q] # NoEntry /\ q # p}) < MaxEntries
    /\ db' = [db EXCEPT ![p] = IOError]
    /\ UNCHANGED <<ss, pc, call>>
    /\ UNCHANGED beyond

NewScopedService(websiteID, storeID) ==
    /\ pc = "idle"
    /\ ss' = newScopedService(websiteID, storeID)
    /\ UNCHANGED <<db, pc, call>>
    /\ UNCHANGED beyond

\* a lookup that binds the service to the override it was called with
Lookup_bindsOverride(T, r, o) ==
    /\ pc = "idle"
    /\ \E res \in {lookup(ss, T, r, o, db)} :
         /\ queries' = res.queries
         /\ v' = res.v
         /\ err' = res.err
         /\ step' = res.step
    /\ route' = r
    /\ ovr' = o
    /\ pc' = "done"
    /\ ss' = [ss EXCEPT !.scp = effectiveScope(ss, o)]
    /\ UNCHANGED <<db, got>>
    /\ UNCHANGED beyond

Lookup(T, r, o) ==
    /\ pc = "idle"
    /\ \E res \in {lookup(ss, T, r, o, db)} :
         /\ queries' = res.queries
         /\ v' = res.v
         /\ err' = res.err
         /\ step' = res.step
    /\ route' = r
    /\ ovr' = o
    /\ pc' = "done"
    /\ UNCHANGED <<db, ss, got>>
    /\ UNCHANGED beyond

Byte(r, o) == Lookup("Byte", r, o)
String(r, o) == Lookup("String", r, o)
Bool(r, o) == Lookup("Bool", r, o)
Float64(r, o) == Lookup("Float64", r, o)
\* Int (the name is taken by Integers)
Int_(r, o) == Lookup("Int", r, o)
Time(r, o) == Lookup("Time", r, o)

\* a call of Scope() on the service
CallScope ==
    /\ pc = "idle"
    /\ got' = Scope(ss)
    /\ step' = "Scope"
    /\ pc' = "got"
    /\ UNCHANGED <<db, ss, route, ovr, queries, v, err>>
    /\ UNCHANGED beyond

\* a call of Parent() on the service
CallParent ==
    /\ pc = "idle"
    /\ got' = Parent(ss)
    /\ step' = "Parent"
    /\ pc' = "got"
    /\ UNCHANGED <<db, ss, route, ovr, queries, v, err>>
    /\ UNCHANGED beyond

\* the caller takes the result
Return ==
    /\ pc \in {"done", "got"}
    /\ pc' = "idle"
    /\ route' = <<>>
    /\ ovr' = <<>>
    /\ queries' = <<>>
    /\ v' = Zero
    /\ err' = nil
    /\ step' = "none"
    /\ got' = <<Absent, 0>>
    /\ UNCHANGED <<db, ss>>
    /\ UNCHANGED beyond

Next ==
    \/ \E p \in StoredPaths, val \in Values : Set(p, val)
    \/ \E p \in StoredPaths : Fail(p)
    \/ \E w \in IDs, s \in IDs : NewScopedService(w, s)
    \/ \E r \in Routes, o \in OverrideArgs : Byte(r, o)
    \/ \E r \in Routes, o \in OverrideArgs : String(r, o)
    \/ \E r \in Routes, o \in OverrideArgs : Bool(r, o)
    \/ \E r \in Routes, o \in OverrideArgs : Float64(r, o)
    \/ \E r \in Routes, o \in OverrideArgs : Int_(r, o)
    \/ \E r \in Routes, o \in OverrideArgs : Time(r, o)
    \/ CallScope
    \/ CallParent
    \/ Return

Spec == Init /\ [][Next]_vars

(* ------------- a lookup step by step, writers in between --------------- *)

\* the stored paths a lookup of service s may read
ChainOf(s) ==
    { p \in StoredPaths :
        \/ p.scope = Default
        \/ p.scope = Store /\ p.id = s.storeID
        \/ p.scope = Website /\ p.id = s.websiteID }

\* what the backend holds at the paths of a step's query, as the step reads it
observed(queried) == [i \in 1..Len(queried) |->
    [p |-> queried[i],
     e |-> IF queried[i] \in DOMAIN db THEN db[queried[i]] ELSE NoEntry]]

\* one service, bound at construction, on an empty backend
InitConc ==
    /\ \E w \in IDs, s \in IDs : ss = newScopedService(w, s)
    /\ db = [p \in StoredPaths |-> NoEntry]
    /\ pc = "idle"
    /\ route = <<>>
    /\ ovr = <<>>
    /\ queries = <<>>
    /\ v = Zero
    /\ err = nil
    /\ step = "none"
    /\ got = <<Absent, 0>>
    /\ typ = "none"
    /\ reads = <<>>
    /\ NoMock
    /\ NoMiddleware
    /\ RestIdle

\* a writer stores a value at a path of the chain, at any moment
SetConc(p, val) ==
    /\ Cardinality({q \in StoredPaths : db[q] # NoEntry /\ q # p}) < MaxEntries
    /\ db' = [db EXCEPT ![p] = val]
    /\ UNCHANGED <<ss, pc, call, concVars>>
    /\ UNCHANGED others

\* the backend starts to fail on reads of a path of the chain, at any moment
FailConc(p) ==
    /\ Cardinality({q \in StoredPaths : db[q] # NoEntry /\ q # p}) < MaxEntries
    /\ db' = [db EXCEPT ![p] = IOError]
    /\ UNCHANGED <<ss, pc, call, concVars>>
    /\ UNCHANGED others

\* the method of type T is called: cfgpath.New, and the return on its error
Begin(T, r, o) ==
    /\ pc = "idle"
    /\ typ' = T
    /\ route' = r
    /\ ovr' = o
    /\ IF New(r).err # nil
       THEN /\ err' = New(r).err
            /\ step' = "route"
            /\ pc' = "done"
       ELSE /\ pc' = "store"
            /\ UNCHANGED <<err, step>>
    /\ UNCHANGED <<db, ss, queries, v, got, reads>>
    /\ UNCHANGED others

\* the store step: the query if the store is allowed, and the return from it
StoreStep ==
    /\ pc = "store"
    /\ \E res \in {storeStep(ss, typ, New(route).p, ovr, db)} :
         /\ queries' = queries \o res.queried
         /\ reads' = reads \o observed(res.queried)
         /\ IF res.queried # <<>>
            THEN v' = res.v /\ err' = res.err
            ELSE UNCHANGED <<v, err>>
         /\ IF res.ret
            THEN step' = "store" /\ pc' = "done"
            ELSE pc' = "website" /\ UNCHANGED step
    /\ UNCHANGED <<db, ss, route, ovr, got, typ>>
    /\ UNCHANGED others

\* the website step
WebsiteStep ==
    /\ pc = "website"
    /\ \E res \in {websiteStep(ss, typ, New(route).p, ovr, db)} :
         /\ queries' = queries \o res.queried
         /\ reads' = reads \o observed(res.queried)
         /\ IF res.queried # <<>>
            THEN v' = res.v /\ err' = res.err
            ELSE UNCHANGED <<v, err>>
         /\ IF res.ret
            THEN step' = "website" /\ pc' = "done"
            ELSE pc' = "default" /\ UNCHANGED step
    /\ UNCHANGED <<db, ss, route, ovr, got, typ>>
    /\ UNCHANGED others

\* the default step, the method's last
DefaultStep ==
    /\ pc = "default"
    /\ \E res \in {defaultStep(ss, typ, New(route).p, ovr, db)} :
         /\ queries' = queries \o res.queried
         /\ reads' = reads \o observed(res.queried)
         /\ v' = res.v
         /\ err' = res.err
    /\ step' = "default"
    /\ pc' = "done"
    /\ UNCHANGED <<db, ss, route, ovr, got, typ>>
    /\ UNCHANGED others

\* the caller takes the result
ReturnConc ==
    /\ pc = "done"
    /\ pc' = "idle"
    /\ route' = <<>>
    /\ ovr' = <<>>
    /\ queries' = <<>>
    /\ v' = Zero
    /\ err' = nil
    /\ step' = "none"
    /\ typ' = "none"
    /\ reads' = <<>>
    /\ UNCHANGED <<db, ss, got>>
    /\ UNCHANGED others

NextConc ==
    \/ \E p \in ChainOf(ss), val \in Values : SetConc(p, val)
    \/ \E p \in ChainOf(ss) : FailConc(p)
    \/ \E T \in Types, r \in Routes, o \in OverrideArgs : Begin(T, r, o)
    \/ StoreStep
    \/ WebsiteStep
    \/ DefaultStep
    \/ ReturnConc

SpecConc == InitConc /\ [][NextConc]_vars

(* ------------------------------ cfgmock -------------------------------- *)

cfgVars ==
    <<db, ss, pc, route, ovr, queries, v, err, step, got, concVars, reqVars, restVars>>

\* indirect: the value behind a pointer
indirect(a) ==
    IF a.t = "*string" THEN Val("string", a.x) ELSE a

\* conv.ToStringE
ToStringE(a) ==
    CASE a.t = "string" -> [v |-> a, err |-> nil]
      [] a.t \in {"bool", "int", "float64", "time"} ->
            [v |-> Val("string", a.x), err |-> nil]
      [] a.t = "nil" -> [v |-> Val("string", ""), err |-> nil]
      [] OTHER -> [v |-> Val("string", ""), err |-> ConvError]

\* conv.ToBoolE: strings go through strconv.ParseBool
ToBoolE(a) ==
    CASE a.t = "bool" -> [v |-> a, err |-> nil]
      [] a.t = "nil" -> [v |-> Val("bool", "false"), err |-> nil]
      [] a.t = "string" /\ a.x \in {"1", "true"} ->
            [v |-> Val("bool", "true"), err |-> nil]
      [] a.t = "string" /\ a.x \in {"0", "false"} ->
            [v |-> Val("bool", "false"), err |-> nil]
      [] OTHER -> [v |-> Val("bool", "false"), err |-> ConvError]

\* conv.ToFloat64E: strings go through strconv.ParseFloat
ToFloat64E(a) ==
    CASE a.t = "float64" -> [v |-> a, err |-> nil]
      [] a.t = "int" -> [v |-> Val("float64", a.x), err |-> nil]
      [] a.t = "string" /\ a.x \in {"0", "1"} ->
            [v |-> Val("float64", a.x), err |-> nil]
      [] OTHER -> [v |-> Val("float64", "0"), err |-> ConvError]

\* conv.ToIntE: strings go through strconv.ParseInt, true is 1
ToIntE(a) ==
    CASE a.t = "int" -> [v |-> a, err |-> nil]
      [] a.t = "nil" -> [v |-> Val("int", "0"), err |-> nil]
      [] a.t = "bool" ->
            [v |-> Val("int", IF a.x = "true" THEN "1" ELSE "0"), err |-> nil]
      [] a.t = "string" /\ a.x \in {"0", "1"} ->
            [v |-> Val("int", a.x), err |-> nil]
      [] OTHER -> [v |-> Val("int", "0"), err |-> ConvError]

\* conv.ToTimeE: strings are parsed as dates
ToTimeE(a) ==
    CASE a.t = "time" -> [v |-> a, err |-> nil]
      [] a.t = "string" /\ a.x \in {"2016"} ->
            [v |-> Val("time", a.x), err |-> nil]
      [] OTHER -> [v |-> Val("time", "0001"), err |-> ConvError]

\* the Go type a getter returns
KindOf(T) ==
    CASE T = "String" -> "string"
      [] T = "Bool" -> "bool"
      [] T = "Float64" -> "float64"
      [] T = "Int" -> "int"
      [] T = "Time" -> "time"

\* a With<T> function called with p.String()
applyF(f, T, p) ==
    IF f = "byPath"
    THEN [v |-> Val(KindOf(T), IF p.scope = Store THEN "store" ELSE "default"),
          err |-> nil]
    ELSE [v |-> Val(KindOf(T), "f"), err |-> FuncError]

\* storage.NewKV()'s Get: the entry, or nil and the key-not-found error
dbGet(kv, p) ==
    IF p \in DOMAIN kv
    THEN [v |-> kv[p], err |-> nil]
    ELSE [v |-> NilValue, err |-> ErrKeyNotFound]

\* its Set: add or overwrite
dbSet(kv, p, val) ==
    [q \in DOMAIN kv \cup {p} |-> IF q = p THEN val ELSE kv[q]]

hasVal(m, p) ==
    LET g == dbGet(m.db, p)
    IN  g.v # NilValue /\ g.err = nil

getVal(m, p) ==
    LET g == dbGet(m.db, p)
    IN  IF g.err # nil /\ g.err # ErrKeyNotFound THEN NilValue ELSE indirect(g.v)

\* a getter's result: the value, the error, the calls of the With<T> function
Answer(res, n) == [v |-> res.v, err |-> res.err, fcalls |-> n]

Service_String(m, p) ==
    IF hasVal(m, p) THEN Answer(ToStringE(getVal(m, p)), 0)
    ELSE IF m.F["String"] # Unset THEN Answer(applyF(m.F["String"], "String", p), 1)
    ELSE Answer([v |-> Val("string", ""), err |-> ErrKeyNotFound], 0)

\* Bool asking the function first
Service_Bool_funcFirst(m, p) ==
    IF m.F["Bool"] # Unset THEN Answer(applyF(m.F["Bool"], "Bool", p), 1)
    ELSE IF hasVal(m, p) THEN Answer(ToBoolE(getVal(m, p)), 0)
    ELSE Answer([v |-> Val("bool", "false"), err |-> ErrKeyNotFound], 0)

Service_Bool(m, p) ==
    IF hasVal(m, p) THEN Answer(ToBoolE(getVal(m, p)), 0)
    ELSE IF m.F["Bool"] # Unset THEN Answer(applyF(m.F["Bool"], "Bool", p), 1)
    ELSE Answer([v |-> Val("bool", "false"), err |-> ErrKeyNotFound], 0)

Service_Float64(m, p) ==
    IF hasVal(m, p) THEN Answer(ToFloat64E(getVal(m, p)), 0)
    ELSE IF m.F["Float64"] # Unset THEN Answer(applyF(m.F["Float64"], "Float64", p), 1)
    ELSE Answer([v |-> Val("float64", "0"), err |-> ErrKeyNotFound], 0)

Service_Int(m, p) ==
    IF hasVal(m, p) THEN Answer(ToIntE(getVal(m, p)), 0)
    ELSE IF m.F["Int"] # Unset THEN Answer(applyF(m.F["Int"], "Int", p), 1)
    ELSE Answer([v |-> Val("int", "0"), err |-> ErrKeyNotFound], 0)

Service_Time(m, p) ==
    IF hasVal(m, p) THEN Answer(ToTimeE(getVal(m, p)), 0)
    ELSE IF m.F["Time"] # Unset THEN Answer(applyF(m.F["Time"], "Time", p), 1)
    ELSE Answer([v |-> Val("time", "0001"), err |-> ErrKeyNotFound], 0)

\* a set that calls the receivers subscribed to the route of the path
published_toSubscribers(m, registered, p) ==
    { r \in Receivers : \E s \in registered : s[1] = r /\ s[2] = p.route }

\* the receivers PathValue.set calls for a write at p: it only stores
published(m, registered, p) == {}

\* UpdateValues / WithPV with one pair: PathValue.set stores it
UpdateValues(p, val) ==
    /\ ret.op = "none"
    /\ mr' = [mr EXCEPT !.db = dbSet(mr.db, p, val)]
    /\ owed' = [r \in Receivers |->
                  IF p.scope = Store /\ <<r, p.route>> \in subs
                  THEN owed[r] + 1 ELSE owed[r]]
    /\ \A r \in Receivers : owed'[r] <= MaxWrites
    /\ received' = [r \in Receivers |->
                      IF r \in published(mr, subs, p)
                      THEN received[r] + 1 ELSE received[r]]
    /\ UNCHANGED <<ret, subs>>
    /\ UNCHANGED cfgVars

\* With<T>(f), or the assignment of the struct field
WithF(T, f) ==
    /\ ret.op = "none"
    /\ mr.F[T] # f
    /\ mr' = [mr EXCEPT !.F[T] = f]
    /\ UNCHANGED <<ret, subs, owed, received>>
    /\ UNCHANGED cfgVars

\* a getter is called and returns
Getter(T, p, a) ==
    /\ ret.op = "none"
    /\ ret' = [op |-> T, p |-> p, v |-> a.v, err |-> a.err, fcalls |-> a.fcalls,
               id |-> 0]
    /\ UNCHANGED <<mr, subs, owed, received>>
    /\ UNCHANGED cfgVars

MockString(p) == Getter("String", p, Service_String(mr, p))
MockBool(p) == Getter("Bool", p, Service_Bool(mr, p))
MockFloat64(p) == Getter("Float64", p, Service_Float64(mr, p))
MockInt(p) == Getter("Int", p, Service_Int(mr, p))
MockTime(p) == Getter("Time", p, Service_Time(mr, p))

\* the caller takes the result
MockReturn ==
    /\ ret.op # "none"
    /\ ret' = NoCall
    /\ UNCHANGED <<mr, subs, owed, received>>
    /\ UNCHANGED cfgVars

NextMock ==
    \/ \E p \in MockPaths, val \in StoredVals : UpdateValues(p, val)
    \/ \E T \in MockTypes, f \in Funcs : WithF(T, f)
    \/ \E p \in MockPaths : MockString(p)
    \/ \E p \in MockPaths : MockBool(p)
    \/ \E p \in MockPaths : MockFloat64(p)
    \/ \E p \in MockPaths : MockInt(p)
    \/ \E p \in MockPaths : MockTime(p)
    \/ MockReturn

SpecMock == Init /\ [][NextMock]_vars

(* ------------------------ cfgmock: Subscribe --------------------------- *)

SubscriptionErrs == {nil, "SubscriptionErr"}

\* the test assigns the struct fields SubscriptionID and SubscriptionErr
SetSubscription(id, e) ==
    /\ ret.op = "none"
    /\ <<id, e>> # <<mr.SubscriptionID, mr.SubscriptionErr>>
    /\ mr' = [mr EXCEPT !.SubscriptionID = id, !.SubscriptionErr = e]
    /\ UNCHANGED <<ret, subs, owed, received>>
    /\ UNCHANGED cfgVars

\* Subscribe(r, s): route and receiver are dropped, the two fields returned
Subscribe(r, s) ==
    /\ ret.op = "none"
    /\ ret' = [op |-> "Subscribe", p |-> <<>>, v |-> NilValue,
               err |-> mr.SubscriptionErr, fcalls |-> 0,
               id |-> mr.SubscriptionID]
    /\ subs' = subs \cup {<<s, r>>}
    /\ UNCHANGED <<mr, owed, received>>
    /\ UNCHANGED cfgVars

NextSub ==
    \/ \E id \in {0, 1}, e \in SubscriptionErrs : SetSubscription(id, e)
    \/ \E r \in Routes, s \in Receivers : Subscribe(r, s)
    \/ \E p \in MockPaths, val \in {Val("string", "1"), Val("bool", "true")} :
          UpdateValues(p, val)
    \/ MockReturn

\* every call returns and the test goes on as long as it has a step to take
SpecSub == Init /\ [][NextSub]_vars /\ WF_vars(NextSub)

(* --------------------------- mw: request ID ---------------------------- *)

\* strconv.FormatInt(n, 10) of a counter value
FormatInt(n) ==
    LET digit(d) == <<"0", "1", "2", "3", "4", "5", "6", "7", "8", "9">>[d + 1]
    IN  IF n < 10 THEN <<digit(n)>> ELSE <<digit(n \div 10), digit(n % 10)>>

\* the prefixes Init() can build: host name and ten random characters
Prefixes == {"localhost/AbCdEfGhIj-", "localhost/KlMnOpQrSt-"}

\* WithRequestID(opts...): the generator's Init() sets the prefix, once
WithRequestID(pfx) ==
    /\ prefix = ""
    /\ prefix' = pfx
    /\ UNCHANGED <<reqID, reqs>>
    /\ UNCHANGED <<db, ss, pc, route, ovr, queries, v, err, step, got, concVars, mockVars>>
    /\ UNCHANGED restVars

\* a request reaches the handler the middleware returned
Arrive(q, h) ==
    /\ prefix # ""
    /\ reqs[q].pc \in {"none", "done"}
    /\ reqs' = [reqs EXCEPT ![q] = [NoRequest EXCEPT !.pc = "get", !.in = h]]
    /\ UNCHANGED <<reqID, prefix>>
    /\ UNCHANGED <<db, ss, pc, route, ovr, queries, v, err, step, got, concVars, mockVars>>
    /\ UNCHANGED restVars

\* a test of the header that asks for a new ID whatever it holds
needsNewID_always(id) == TRUE

\* if id == ""
needsNewID(id) == id = <<>>

\* id := r.Header.Get(RequestIDHeader)
HeaderGet(q) ==
    /\ reqs[q].pc = "get"
    /\ \E id \in {IF reqs[q].in = "" THEN <<>> ELSE <<reqs[q].in>>} :
         reqs' = [reqs EXCEPT ![q].id = id,
                              ![q].pc = IF needsNewID(id) THEN "newid" ELSE "set"]
    /\ UNCHANGED <<reqID, prefix>>
    /\ UNCHANGED <<db, ss, pc, route, ovr, queries, v, err, step, got, concVars, mockVars>>
    /\ UNCHANGED restVars

\* id = ob.genRID.NewID(): the counter is added to atomically
NewID(q) ==
    /\ reqs[q].pc = "newid"
    /\ reqID < MaxCount
    /\ reqID' = reqID + 1
    /\ reqs' = [reqs EXCEPT ![q].id = <<prefix>> \o FormatInt(reqID + 1),
                            ![q].newIDs = @ + 1,
                            ![q].pc = "set"]
    /\ UNCHANGED prefix
    /\ UNCHANGED <<db, ss, pc, route, ovr, queries, v, err, step, got, concVars, mockVars>>
    /\ UNCHANGED restVars

\* w.Header().Set(RequestIDHeader, id)
HeaderSet(q) ==
    /\ reqs[q].pc = "set"
    /\ reqs' = [reqs EXCEPT ![q].out = reqs[q].id, ![q].pc = "call"]
    /\ UNCHANGED <<reqID, prefix>>
    /\ UNCHANGED <<db, ss, pc, route, ovr, queries, v, err, step, got, concVars, mockVars>>
    /\ UNCHANGED restVars

\* hf(w, r): the wrapped handler runs and sees the response header
Handler(q) ==
    /\ reqs[q].pc = "call"
    /\ reqs' = [reqs EXCEPT ![q].calls = @ + 1,
                            ![q].seen = reqs[q].out,
                            ![q].pc = "done"]
    /\ UNCHANGED <<reqID, prefix>>
    /\ UNCHANGED <<db, ss, pc, route, ovr, queries, v, err, step, got, concVars, mockVars>>
    /\ UNCHANGED restVars

NextReq ==
    \/ \E pfx \in Prefixes : WithRequestID(pfx)
    \/ \E q \in Requests, h \in IncomingIDs : Arrive(q, h)
    \/ \E q \in Requests : HeaderGet(q)
    \/ \E q \in Requests : NewID(q)
    \/ \E q \in Requests : HeaderSet(q)
    \/ \E q \in Requests : Handler(q)

SpecReq == Init /\ [][NextReq]_vars

(* ------------------------- mw: NewID, concurrent ----------------------- *)

\* the scoped service, its mock and the middleware's requests
settled ==
    <<db, ss, pc, route, ovr, queries, v, err, step, got, concVars, mockVars, prefix, reqs>>

\* an add whose sum is returned but not stored
AddInt64_notStored(counter, delta) ==
    [counter |-> counter, result |-> counter + delta]

\* atomic.AddInt64(&reqID, delta): one indivisible step, the new value returned
AddInt64(counter, delta) ==
    [counter |-> counter + delta, result |-> counter + delta]

\* RequestIDService.Init() of one instance
GenInit(i, pfx) ==
    /\ prefixOf[i] = ""
    /\ prefixOf' = [prefixOf EXCEPT ![i] = pfx]
    /\ UNCHANGED <<reqID, callers, issued>>
    /\ UNCHANGED settled
    /\ UNCHANGED afterID

\* a goroutine calls NewID() of instance i
CallNewID(c, i) ==
    /\ callers[c].pc = "idle"
    /\ reqID + Cardinality({d \in Requests : callers[d].pc = "add"}) < MaxCount
    /\ callers' = [callers EXCEPT ![c] = [pc |-> "add", inst |-> i, n |-> 0]]
    /\ UNCHANGED <<reqID, prefixOf, issued>>
    /\ UNCHANGED settled
    /\ UNCHANGED afterID

\* atomic.AddInt64(&reqID, 1)
AddStep(c) ==
    /\ callers[c].pc = "add"
    /\ \E a \in {AddInt64(reqID, 1)} :
         /\ reqID' = a.counter
         /\ callers' = [callers EXCEPT ![c].pc = "format", ![c].n = a.result]
    /\ UNCHANGED <<prefixOf, issued>>
    /\ UNCHANGED settled
    /\ UNCHANGED afterID

\* return rp.prefix + strconv.FormatInt(..., 10)
ReturnID(c) ==
    /\ callers[c].pc = "format"
    /\ issued' = Append(issued,
                        [inst |-> callers[c].inst,
                         id |-> <<prefixOf[callers[c].inst]>> \o FormatInt(callers[c].n)])
    /\ callers' = [callers EXCEPT ![c] = NoCaller]
    /\ UNCHANGED <<reqID, prefixOf>>
    /\ UNCHANGED settled
    /\ UNCHANGED afterID

NextNewID ==
    \/ \E i \in Instances, pfx \in Prefixes : GenInit(i, pfx)
    \/ \E c \in Requests, i \in Instances : CallNewID(c, i)
    \/ \E c \in Requests : AddStep(c)
    \/ \E c \in Requests : ReturnID(c)

SpecNewID == Init /\ [][NextNewID]_vars

(* ------------------------ ctxjwt: the middleware ----------------------- *)

beforeJWT == <<settled, reqID, idVars>>

\* errHandler.ServeHTTPContext(withContextError(ctx, err), w, r) and return
serveError(j, e) ==
    [j EXCEPT !.ctxErr = e,
              !.ehDefault = IF j.errHandler = "default" THEN @ + 1 ELSE @,
              !.ehScope = IF j.errHandler = "scope" THEN @ + 1 ELSE @,
              !.pc = "done"]

\* hf.ServeHTTPContext(ctx, w, r) and return
serveNext(j) == [j EXCEPT !.hf = @ + 1, !.pc = "done"]

\* Blacklist.Set: a token is blacklisted, at any moment
BlacklistSet(raw) ==
    /\ raw \notin blacklist
    /\ blacklist' = blacklist \cup {raw}
    /\ UNCHANGED jwt
    /\ UNCHANGED beforeJWT
    /\ UNCHANGED afterJWT

\* an entry of the blacklist expires
BlacklistExpire(raw) ==
    /\ raw \in blacklist
    /\ blacklist' = blacklist \ {raw}
    /\ UNCHANGED jwt
    /\ UNCHANGED beforeJWT
    /\ UNCHANGED afterJWT

\* a request reaches the handler; its context holds a requested store or none (0)
JwtServe(store0) ==
    /\ jwt.pc \in {"idle", "done"}
    /\ jwt' = [NoJWTRequest EXCEPT !.pc = "provider", !.ctxStore = store0]
    /\ UNCHANGED blacklist
    /\ UNCHANGED beforeJWT
    /\ UNCHANGED afterJWT

\* errHandler := s.defaultScopeCache.ErrorHandler; store.FromContextProvider(ctx)
FromContextProvider ==
    /\ jwt.pc = "provider"
    /\ jwt' = IF jwt.ctxStore = 0
              THEN serveError(jwt, "FromContextProvider")
              ELSE [jwt EXCEPT !.reqStore = jwt.ctxStore, !.pc = "config"]
    /\ UNCHANGED blacklist
    /\ UNCHANGED beforeJWT
    /\ UNCHANGED afterJWT

\* s.ConfigByScopedGetter(...), and the choice of the scope's ErrorHandler
ConfigByScopedGetter(res) ==
    /\ jwt.pc = "config"
    /\ jwt' = IF res = "err"
              THEN serveError(jwt, "ConfigByScopedGetter")
              ELSE [jwt EXCEPT !.cfgLoaded = TRUE,
                               !.cfgHandlerSet = (res = "withHandler"),
                               !.errHandler = IF res = "withHandler" THEN "scope" ELSE @,
                               !.pc = "parse"]
    /\ UNCHANGED blacklist
    /\ UNCHANGED beforeJWT
    /\ UNCHANGED afterJWT

\* scpCfg.ParseFromRequest(r)
ParseFromRequest(failed, valid, raw) ==
    /\ jwt.pc = "parse"
    /\ jwt' = IF failed
              THEN serveError([jwt EXCEPT !.parsed = "err"], "ParseFromRequest")
              ELSE [jwt EXCEPT !.parsed = "ok", !.valid = valid, !.raw = raw,
                               !.pc = "valid"]
    /\ UNCHANGED blacklist
    /\ UNCHANGED beforeJWT
    /\ UNCHANGED afterJWT

\* a middleware that does not look at token.Valid
CheckValid_skipped ==
    /\ jwt.pc = "valid"
    /\ jwt' = [jwt EXCEPT !.pc = "blacklist"]
    /\ UNCHANGED blacklist
    /\ UNCHANGED beforeJWT
    /\ UNCHANGED afterJWT

\* if false == token.Valid
CheckValid ==
    /\ jwt.pc = "valid"
    /\ jwt' = IF ~jwt.valid
              THEN serveError(jwt, "TokenInvalid")
              ELSE [jwt EXCEPT !.pc = "blacklist"]
    /\ UNCHANGED blacklist
    /\ UNCHANGED beforeJWT
    /\ UNCHANGED afterJWT

\* the blacklist branch without its return: the error handler is served and
\* the handler goes on
CheckBlacklist_noReturn ==
    /\ jwt.pc = "blacklist"
    /\ jwt' = IF jwt.raw \in blacklist
              THEN [serveError([jwt EXCEPT !.listed = TRUE], "TokenBlacklisted")
                      EXCEPT !.ctxToken = TRUE, !.pc = "claim"]
              ELSE [jwt EXCEPT !.ctxToken = TRUE, !.pc = "claim"]
    /\ UNCHANGED blacklist
    /\ UNCHANGED beforeJWT
    /\ UNCHANGED afterJWT

\* if s.Blacklist.Has(token.Raw); ctx = withContext(ctx, token)
CheckBlacklist ==
    /\ jwt.pc = "blacklist"
    /\ jwt' = IF jwt.raw \in blacklist
              THEN serveError([jwt EXCEPT !.listed = TRUE], "TokenBlacklisted")
              ELSE [jwt EXCEPT !.ctxToken = TRUE, !.pc = "claim"]
    /\ UNCHANGED blacklist
    /\ UNCHANGED beforeJWT
    /\ UNCHANGED afterJWT

\* ScopeOptionFromClaim(token.Claims): a store code, none (NotFound), or a malformed one
ScopeOptionFromClaim(res) ==
    /\ jwt.pc = "claim"
    /\ jwt' = CASE res = "NotFound" -> serveNext([jwt EXCEPT !.claim = res])
                [] res = "err" -> serveError([jwt EXCEPT !.claim = res], "ScopeOptionFromClaim")
                [] OTHER -> [jwt EXCEPT !.claim = res, !.pc = "store"]
    /\ UNCHANGED blacklist
    /\ UNCHANGED beforeJWT
    /\ UNCHANGED afterJWT

\* storeService.RequestedStore(scopeOption): a store, or an error (0)
RequestedStore(res) ==
    /\ jwt.pc = "store"
    /\ jwt' = IF res = 0
              THEN serveError(jwt, "RequestedStore")
              ELSE [jwt EXCEPT !.newStore = res, !.pc = "compare"]
    /\ UNCHANGED blacklist
    /\ UNCHANGED beforeJWT
    /\ UNCHANGED afterJWT

\* a comparison that replaces the store whatever its ID
replaceStore_always(newID, oldID) == TRUE

\* if newRequestedStore.StoreID() != requestedStore.StoreID()
replaceStore(newID, oldID) == newID # oldID

\* ctx = store.WithContextProvider(...) if the IDs differ; hf.ServeHTTPContext
SetRequestedStore ==
    /\ jwt.pc = "compare"
    /\ jwt' = IF replaceStore(jwt.newStore, jwt.reqStore)
              THEN serveNext([jwt EXCEPT !.ctxStore = jwt.newStore, !.ctxReplaced = TRUE])
              ELSE serveNext(jwt)
    /\ UNCHANGED blacklist
    /\ UNCHANGED beforeJWT
    /\ UNCHANGED afterJWT

NextJWT ==
    \/ \E raw \in RawTokens : BlacklistSet(raw)
    \/ \E raw \in RawTokens : BlacklistExpire(raw)
    \/ \E store0 \in {0} \cup StoreIDs : JwtServe(store0)
    \/ FromContextProvider
    \/ \E res \in {"err", "nilHandler", "withHandler"} : ConfigByScopedGetter(res)
    \/ \E failed, valid \in BOOLEAN, raw \in RawTokens : ParseFromRequest(failed, valid, raw)
    \/ CheckValid
    \/ CheckBlacklist
    \/ \E res \in {"ok", "NotFound", "err"} : ScopeOptionFromClaim(res)
    \/ \E res \in {0} \cup StoreIDs : RequestedStore(res)
    \/ SetRequestedStore

SpecJWT == Init /\ [][NextJWT]_vars

(* ------------------------ dbr: where fragments ------------------------- *)

beforeWhere == <<beforeJWT, jwtVars>>

\* the writer and the argument list before anything is written
Blank == [sql |-> <<>>, args |-> <<>>, any |-> FALSE, panicked |-> FALSE]

\* Quoter.writeQuotedColumn(k, w): the name between two backticks
Backtick == "BACKTICK"
writeQuotedColumn(k) == <<Backtick, k, Backtick>>

\* writeWhereCondition(w, k, pred, anyConditions)
writeWhereCondition(w, k, pred) ==
    [w EXCEPT !.sql = w.sql \o (IF w.any THEN <<" AND (">> ELSE <<"(">>)
                            \o writeQuotedColumn(k) \o <<pred, ")">>,
              !.any = TRUE]

\* the branch of an empty slice that is not nil: anyConditions is left as it is
writeFalse(w) ==
    [w EXCEPT !.sql = w.sql \o (IF w.any THEN <<" AND (1=0)">> ELSE <<"(1=0)">>)]

\* the body of the loop of writeEqualityMapToSQL for one key and value;
\* reflect's IsNil panics on a value of kind Array
writeEqualityEntry(w, k, val) ==
    IF val.kind = "nil" THEN writeWhereCondition(w, k, " IS NULL")
    ELSE IF val.kind \in {"array", "slice"}
    THEN IF Len(val.elems) = 0
         THEN IF val.kind = "array" THEN [w EXCEPT !.panicked = TRUE]
              ELSE IF val.isNil THEN writeWhereCondition(w, k, " IS NULL")
              ELSE writeFalse(w)
         ELSE IF Len(val.elems) = 1
         THEN [writeWhereCondition(w, k, " = ?")
                 EXCEPT !.args = Append(w.args, Scalar(val.elems[1]))]
         ELSE [writeWhereCondition(w, k, " IN ?") EXCEPT !.args = Append(w.args, val)]
    ELSE [writeWhereCondition(w, k, " = ?") EXCEPT !.args = Append(w.args, val)]

\* writeEqualityMapToSQL(eq, w, args, anyConditions): eq in the order of the range
RECURSIVE writeEqualityMapToSQL(_, _)
writeEqualityMapToSQL(eq, w) ==
    IF eq = <<>> \/ w.panicked THEN w
    ELSE writeEqualityMapToSQL(Tail(eq), writeEqualityEntry(w, Head(eq).k, Head(eq).v))

\* the body of the loop of writeWhereFragmentsToSQL for one fragment
writeFragment(w, f) ==
    IF f.Condition # ""
    THEN [w EXCEPT !.sql = w.sql \o (IF w.any THEN <<" AND (">> ELSE <<"(">>)
                                 \o <<f.Condition, ")">>,
                   !.any = TRUE,
                   !.args = w.args \o f.Values]
    ELSE writeEqualityMapToSQL(f.EqualityMap, w)

RECURSIVE writeWhereFragmentsToSQL(_, _)
writeWhereFragmentsToSQL(fragments, w) ==
    IF fragments = <<>> \/ w.panicked THEN w
    ELSE writeWhereFragmentsToSQL(Tail(fragments), writeFragment(w, Head(fragments)))

\* the conditions a fragment holds
CondsOf(f) == IF f.Condition # "" THEN 1 ELSE Len(f.EqualityMap)

RECURSIVE CondsIn(_)
CondsIn(fs) == IF fs = <<>> THEN 0 ELSE CondsOf(Head(fs)) + CondsIn(Tail(fs))

\* Where(args...): one fragment is appended to the statement
Where(f) ==
    /\ ~wout.called
    /\ Len(frags) < MaxConds
    /\ CondsIn(frags) + CondsOf(f) <= MaxConds
    /\ frags' = Append(frags, f)
    /\ UNCHANGED wout
    /\ UNCHANGED beforeWhere
    /\ UNCHANGED afterWhere

\* Where(ConditionRaw(...)), Where(ConditionIsNull(...))
WhereRaw(f) == Where(f)

\* Where(Eq{}): the map is handed over empty, the caller fills it afterwards
WhereEq == Where(Fragment("", <<>>, <<>>))

\* eq[k] = val on the map of the last fragment
EqPut(val) ==
    /\ ~wout.called
    /\ Len(frags) > 0
    /\ frags[Len(frags)].Condition = ""
    /\ CondsIn(frags) < MaxConds
    /\ LET eq == frags[Len(frags)].EqualityMap
       IN  frags' = [frags EXCEPT ![Len(frags)].EqualityMap =
                        Append(eq, [k |-> EqKeys[Len(eq) + 1], v |-> val])]
    /\ UNCHANGED wout
    /\ UNCHANGED beforeWhere
    /\ UNCHANGED afterWhere

\* the statement is rendered: writeWhereFragmentsToSQL, called with fragments
WriteWhere ==
    /\ ~wout.called
    /\ Len(frags) > 0
    /\ \E w \in {writeWhereFragmentsToSQL(frags, Blank)} :
         wout' = [called |-> TRUE, sql |-> w.sql, args |-> w.args, any |-> w.any,
                  panicked |-> w.panicked]
    /\ UNCHANGED frags
    /\ UNCHANGED beforeWhere
    /\ UNCHANGED afterWhere

\* another statement is begun
NewStatement ==
    /\ wout.called
    /\ frags' = <<>>
    /\ wout' = NotWritten
    /\ UNCHANGED beforeWhere
    /\ UNCHANGED afterWhere

NextWhere ==
    \/ \E f \in RawFragments : WhereRaw(f)
    \/ WhereEq
    \/ \E val \in EqValues : EqPut(val)
    \/ WriteWhere
    \/ NewStatement

SpecWhere == Init /\ [][NextWhere]_vars

(* -------------------- dbr: Delete and its listeners -------------------- *)

beforeDelete == <<beforeWhere, whereVars>>

\* Listeners.Add(Listen{Name, Once, EventType: OnBeforeToSQL, DeleteFunc})
Listen(kind, once) == [kind |-> kind, Once |-> once, applied |-> FALSE]

\* the dispatch ends before a listener added after the one that stopped it
stops_never(d) == FALSE
stops(d) == d.PropagationStopped /\ d.i > d.stoppedAt

\* a listener with Once that has been applied is passed over
skipsOnce_never(l) == FALSE
skipsOnce(l) == l.Once /\ l.applied

\* the DeleteFunc of the listener at position j, called with the statement
DeleteFunc(d, j) ==
    LET kind == d.Listeners[j].kind
    IN  IF kind = "where"
        THEN [d EXCEPT !.WhereFragments =
                         Append(@, Fragment(Conditions[j], <<Scalar(j)>>, <<>>))]
        ELSE IF kind = "stop"
        THEN [d EXCEPT !.OrderBys = Append(@, Columns[j]),
                       !.PropagationStopped = TRUE]
        ELSE [d EXCEPT !.OrderBys = Append(@, Columns[j])]

\* one turn of the loop of the dispatch, for the listener at position d.i
dispatchStep(d) ==
    IF stops(d) THEN [d EXCEPT !.i = Len(d.Listeners) + 1]
    ELSE IF skipsOnce(d.Listeners[d.i]) THEN [d EXCEPT !.i = @ + 1]
    ELSE LET called == DeleteFunc(d, d.i)
         IN  [called EXCEPT !.Listeners[d.i].applied = TRUE,
                            !.stoppedAt = IF d.Listeners[d.i].kind = "stop"
                                          THEN d.i ELSE @,
                            !.log = Append(@, d.i),
                            !.i = @ + 1]

\* the ORDER BY list, separated by ", "
RECURSIVE writeOrderBys(_)
writeOrderBys(obs) ==
    IF obs = <<>> THEN <<>>
    ELSE IF Len(obs) = 1 THEN <<obs[1]>>
    ELSE <<obs[1], ", ">> \o writeOrderBys(Tail(obs))

\* the text and the arguments ToSQL returns for the statement
renderDelete(d) ==
    LET w == writeWhereFragmentsToSQL(d.WhereFragments, Blank)
    IN  [ sql |-> <<"DELETE FROM ", Backtick, "tableA", Backtick>>
                  \o (IF d.WhereFragments = <<>> THEN <<>> ELSE <<" WHERE ">> \o w.sql)
                  \o (IF d.OrderBys = <<>> THEN <<>>
                      ELSE <<" ORDER BY ">> \o writeOrderBys(d.OrderBys)),
          args |-> w.args ]

\* d.Listeners.Add(...), before the statement is rendered
AddListener(kind, once) ==
    /\ del.pc = "idle"
    /\ del.calls = 0
    /\ Len(del.Listeners) < MaxListeners
    /\ del' = [del EXCEPT !.Listeners = Append(@, Listen(kind, once))]
    /\ UNCHANGED beforeDelete
    /\ UNCHANGED afterDelete

\* d.ToSQL() is called: the dispatch of OnBeforeToSQL begins
ToSQL ==
    /\ del.pc = "idle"
    /\ del.calls < MaxToSQL
    /\ del' = [del EXCEPT !.pc = "dispatch", !.i = 1, !.log = <<>>]
    /\ UNCHANGED beforeDelete
    /\ UNCHANGED afterDelete

\* the dispatch reaches the next listener
Dispatch ==
    /\ del.pc = "dispatch"
    /\ del.i <= Len(del.Listeners)
    /\ del' = dispatchStep(del)
    /\ UNCHANGED beforeDelete
    /\ UNCHANGED afterDelete

\* the dispatch is over: the statement is written and ToSQL returns
BuildSQL ==
    /\ del.pc = "dispatch"
    /\ del.i > Len(del.Listeners)
    /\ \E r \in {renderDelete(del)} :
         del' = [del EXCEPT !.sql = r.sql, !.args = r.args,
                            !.calls = @ + 1, !.pc = "idle", !.i = 0]
    /\ UNCHANGED beforeDelete
    /\ UNCHANGED afterDelete

\* another statement is begun
NewDeleteFrom ==
    /\ del.pc = "idle"
    /\ del.calls > 0
    /\ del' = NewDelete
    /\ UNCHANGED beforeDelete
    /\ UNCHANGED afterDelete

NextDelete ==
    \/ \E kind \in {"order", "where"}, once \in BOOLEAN : AddListener(kind, once)
    \/ AddListener("stop", FALSE)
    \/ ToSQL
    \/ Dispatch
    \/ BuildSQL
    \/ NewDeleteFrom

SpecDelete == Init /\ [][NextDelete]_vars

(* ---------------------- tableToStruct: generators ---------------------- *)

beforeGen == <<beforeDelete, delVars>>

\* (*sync.WaitGroup).Add
WaitGroup_Add(counter, delta) == counter + delta

\* newGenerator(tts, dbrConn, wg): wg.Add(1), then the generator
newGenerator_noAdd(counter) == counter
newGenerator(counter) == WaitGroup_Add(counter, 1)

\* a generator whose run() has not begun
Started == [pc |-> "go", deferred |-> FALSE, dones |-> 0]

\* every process step needs the process to be alive
alive == mainPC \in {"loop", "wait"}

\* go newGenerator(tStruct, dbc, &wg).setMagentoVersion(mageVersion).run():
\* the receiver of run is evaluated by main, then the goroutine is started
GoRun ==
    /\ mainPC = "loop"
    /\ Len(gens) < MaxGenerators
    /\ wg' = newGenerator(wg)
    /\ gens' = Append(gens, Started)
    /\ UNCHANGED mainPC
    /\ UNCHANGED beforeGen
    /\ UNCHANGED afterGen

\* the range over ConfigTableToStruct is over
EndRange ==
    /\ mainPC = "loop"
    /\ mainPC' = "wait"
    /\ UNCHANGED <<wg, gens>>
    /\ UNCHANGED beforeGen
    /\ UNCHANGED afterGen

\* wg.Wait() returns when the counter is zero, and main returns
Wait ==
    /\ mainPC = "wait"
    /\ wg = 0
    /\ mainPC' = "returned"
    /\ UNCHANGED <<wg, gens>>
    /\ UNCHANGED beforeGen
    /\ UNCHANGED afterGen

\* run() begins: defer g.wg.Done()
RunDefer(g) ==
    /\ alive
    /\ g \in 1..Len(gens)
    /\ gens[g].pc = "go"
    /\ gens' = [gens EXCEPT ![g].pc = "analyze", ![g].deferred = TRUE]
    /\ UNCHANGED <<wg, mainPC>>
    /\ UNCHANGED beforeGen
    /\ UNCHANGED afterGen

\* the statements of run() between the defer and the return, each followed by
\* LogFatal(err), which returns when err is nil
RunBody(g) ==
    /\ alive
    /\ g \in 1..Len(gens)
    /\ gens[g].pc \in {"analyze", "open", "tables", "close"}
    /\ gens' = [gens EXCEPT ![g].pc =
                   CASE @ = "analyze" -> "open"
                     [] @ = "open" -> "tables"
                     [] @ = "tables" -> "close"
                     [] @ = "close" -> "return"]
    /\ UNCHANGED <<wg, mainPC>>
    /\ UNCHANGED beforeGen
    /\ UNCHANGED afterGen

\* LogFatal(err) with an error: PkgLog.Fatal ends the process
LogFatal(g) ==
    /\ alive
    /\ g \in 1..Len(gens)
    /\ gens[g].pc \in {"analyze", "open", "tables", "close"}
    /\ mainPC' = "exited"
    /\ UNCHANGED <<wg, gens>>
    /\ UNCHANGED beforeGen
    /\ UNCHANGED afterGen

\* run() returns: the deferred g.wg.Done() is called
RunReturn(g) ==
    /\ alive
    /\ g \in 1..Len(gens)
    /\ gens[g].pc = "return"
    /\ wg' = IF gens[g].deferred THEN WaitGroup_Add(wg, -1) ELSE wg
    /\ gens' = [gens EXCEPT ![g].pc = "returned",
                            ![g].dones = IF gens[g].deferred THEN @ + 1 ELSE @]
    /\ UNCHANGED mainPC
    /\ UNCHANGED beforeGen
    /\ UNCHANGED afterGen

MainStep == GoRun \/ EndRange \/ Wait

RunStep(g) == RunDefer(g) \/ RunBody(g) \/ RunReturn(g)

NextGen ==
    \/ GoRun
    \/ EndRange
    \/ Wait
    \/ \E g \in 1..MaxGenerators : RunDefer(g)
    \/ \E g \in 1..MaxGenerators : RunBody(g)
    \/ \E g \in 1..MaxGenerators : LogFatal(g)
    \/ \E g \in 1..MaxGenerators : RunReturn(g)

\* the scheduler lets main and every goroutine that can run take its next step
SpecGen ==
    /\ Init
    /\ [][NextGen]_vars
    /\ WF_vars(MainStep)
    /\ \A g \in 1..MaxGenerators : WF_vars(RunStep(g))

(* ---------------- scoped service: two lookups compared ----------------- *)

beforeCmp == <<mockVars, reqVars, idVars, jwtVars, whereVars, delVars, genVars>>

\* two calls of one typed method with the overrides o1 and o2, nothing
\* written in between
Compare(case, T, r, o1, o2) ==
    /\ pc = "idle"
    /\ cmp' = [ case |-> case,
                first |-> lookup(ss, T, r, o1, db),
                second |-> lookup(ss, T, r, o2, db),
                scopes |-> <<effectiveScope(ss, o1), effectiveScope(ss, o2)>>,
                bound |-> ss.scp ]
    /\ pc' = "done"
    /\ UNCHANGED <<db, ss, call>>
    /\ UNCHANGED concVars
    /\ UNCHANGED beforeCmp

\* ss.T(r) and ss.T(r, scope.Absent)
CompareAbsent(T, r) == Compare("absent", T, r, <<>>, <<Absent>>)

\* ss.T(r, s) and ss.T(r, s, more)
CompareMore(T, r, s, more) == Compare("more", T, r, <<s>>, <<s, more>>)

\* both calls have returned
Compared ==
    /\ pc = "done"
    /\ cmp.case # "none"
    /\ cmp' = NotCompared
    /\ pc' = "idle"
    /\ UNCHANGED <<db, ss, call>>
    /\ UNCHANGED concVars
    /\ UNCHANGED beforeCmp

\* one value is written: which value a path holds does not matter to the
\* comparison, whether it holds one or fails does
NextCmp ==
    \/ \E p \in StoredPaths : Set(p, CHOOSE val \in Values : TRUE)
    \/ \E p \in StoredPaths : Fail(p)
    \/ \E w \in IDs, s \in IDs : NewScopedService(w, s)
    \/ \E T \in Types, r \in Routes : CompareAbsent(T, r)
    \/ \E T \in Types, r \in {x \in Routes : IsValidRoute(x)}, s \in Scopes, more \in Scopes :
          CompareMore(T, r, s, more)
    \/ Compared

SpecCmp == Init /\ [][NextCmp]_vars

(* ----------------------- the state a claim reads ----------------------- *)

\* the three paths of the chain of the service for the route of the lookup
StorePath == [route |-> route, scope |-> Store, id |-> ss.storeID]
WebsitePath == [route |-> route, scope |-> Website, id |-> ss.websiteID]
DefaultPath == [route |-> route, scope |-> Default, id |-> 0]

\* the entry the backend holds for a path
Entry(p) == IF p \in StoredPaths THEN db[p] ELSE NoEntry

\* a lookup of a well-formed route has returned
Returned == pc = "done" /\ IsValidRoute(route)

\* the result is the backend's answer for path p
ResultIs(p) ==
    /\ Entry(p) \in Values => v = Entry(p) /\ err = nil
    /\ Entry(p) = NoEntry => v = Zero /\ err = NotFound
    /\ Entry(p) = IOError => v = Zero /\ err = BackendFailure

\* the positions of the lookup's queries at a scope level
At(s) == {i \in 1..Len(queries) : queries[i].scope = s}

(* ------------------------------- claims -------------------------------- *)

\* C1: with a well-formed route, no override and a backend that answers only
\* found or NotFound, a lookup returns the value of the most specific path
\* holding one: Store(storeID) if storeID > 0, then Website(websiteID) if
\* websiteID > 0, then Default.
C1_MostSpecificValue ==
    (Returned /\ ovr = <<>> /\ \A p \in StoredPaths : db[p] # IOError) =>
        IF ss.storeID > 0 /\ Entry(StorePath) \in Values
        THEN v = Entry(StorePath) /\ err = nil
        ELSE IF ss.websiteID > 0 /\ Entry(WebsitePath) \in Values
        THEN v = Entry(WebsitePath) /\ err = nil
        ELSE Entry(DefaultPath) \in Values => v = Entry(DefaultPath) /\ err = nil

\* a store-bound service without store entry gets the website's value, which
\* differs from the default's
C1_Witness ==
    /\ Returned /\ ovr = <<>>
    /\ ss.storeID > 0 /\ ss.websiteID > 0
    /\ Entry(StorePath) = NoEntry
    /\ Entry(WebsitePath) = "DE" /\ Entry(DefaultPath) = "US"
    /\ v = "DE" /\ err = nil

\* C2: the queries of a lookup are a subsequence of Store(storeID),
\* Website(websiteID), Default in that order, each path at most once, and a
\* query follows another only if every earlier one was answered NotFound.
C2_ChainOrder ==
    pc = "done" =>
        /\ \A i \in 1..Len(queries) :
              queries[i] \in {StorePath, WebsitePath, DefaultPath}
        /\ \A i, j \in 1..Len(queries) :
              i < j => queries[i].scope > queries[j].scope
        /\ \A i \in 1..(Len(queries) - 1) : Entry(queries[i]) = NoEntry

\* all three paths are queried, in the order of the chain
C2_Witness ==
    /\ Returned
    /\ queries = <<StorePath, WebsitePath, DefaultPath>>
    /\ Entry(DefaultPath) \in Values

\* C3: an error other than NotFound answered to the Store or the Website
\* query is what the lookup returns, and that query is the lookup's last.
C3_ErrorAborts ==
    pc = "done" =>
        \A i \in 1..Len(queries) :
            (queries[i].scope \in {Store, Website} /\ Entry(queries[i]) = IOError) =>
                /\ i = Len(queries)
                /\ err = BackendFailure
                /\ v = Zero

\* the website read fails while the default path holds a value
C3_Witness ==
    /\ Returned
    /\ Entry(WebsitePath) = IOError /\ Entry(DefaultPath) \in Values
    /\ queries[Len(queries)] = WebsitePath
    /\ err = BackendFailure

\* C4: when the Store and the Website step are each skipped or answered
\* NotFound, the Default path is queried exactly once, last, and its answer is
\* the result; a NotFound result is always the Default query's NotFound.
C4_DefaultVerbatim ==
    Returned =>
        /\ (\A i \in At(Store) \cup At(Website) : Entry(queries[i]) = NoEntry) =>
              /\ Cardinality(At(Default)) = 1
              /\ queries[Len(queries)] = DefaultPath
              /\ ResultIs(DefaultPath)
        /\ err = NotFound =>
              /\ Len(queries) > 0
              /\ queries[Len(queries)] = DefaultPath
              /\ Entry(DefaultPath) = NoEntry

\* a route stored nowhere in the chain, another store holding a value
C4_Witness ==
    /\ Returned
    /\ Len(queries) = 3
    /\ \E p \in StoredPaths : db[p] \in Values
    /\ err = NotFound /\ v = Zero

\* C5: with Website as the override scope, a lookup of a service with
\* storeID > 0 queries no Store path at all.
C5_WebsiteOverrideSkipsStore ==
    (pc = "done" /\ ovr = <<Website>>) => At(Store) = {}

\* the store path holds a value and the lookup starts at the website path
C5_Witness ==
    /\ Returned /\ ovr = <<Website>>
    /\ ss.storeID > 0 /\ ss.websiteID > 0
    /\ Entry(StorePath) \in Values
    /\ queries = <<WebsitePath, DefaultPath>>

\* C6: with Default as the override scope a lookup queries the Default path
\* and nothing else, whatever the service's IDs, and returns that answer.
C6_DefaultOverrideOnly ==
    (Returned /\ ovr = <<Default>>) =>
        /\ queries = <<DefaultPath>>
        /\ ResultIs(DefaultPath)

\* store and website hold entries that the lookup passes over
C6_Witness ==
    /\ Returned /\ ovr = <<Default>>
    /\ ss.storeID > 0 /\ ss.websiteID > 0
    /\ Entry(StorePath) \in Values /\ Entry(WebsitePath) \in Values
    /\ queries = <<DefaultPath>> /\ err = NotFound

\* C7: an override scope only narrows the chain: a step eligible with an
\* override is eligible without one, and every level a lookup queries is a
\* level the service may query with its own bound scope.
C7_OverrideNarrows ==
    /\ \A o \in OverrideArgs :
          /\ isAllowedStore(ss, o) => isAllowedStore(ss, <<>>)
          /\ isAllowedWebsite(ss, o) => isAllowedWebsite(ss, <<>>)
    /\ pc = "done" =>
          /\ At(Store) # {} => ss.storeID > 0 /\ Scope(ss)[1] = Store
          /\ At(Website) # {} => ss.websiteID > 0 /\ Scope(ss)[1] \in {Store, Website}

\* a website-bound service called with the Store override starts at its website
C7_Witness ==
    /\ Returned /\ ovr = <<Store>>
    /\ ss.storeID <= 0 /\ ss.websiteID > 0
    /\ queries[1] = WebsitePath

\* C8: with or without an override, a Store query carries the service's
\* storeID, a Website query its websiteID and the Default query the ID 0.
C8_QueryIDs ==
    pc = "done" =>
        \A i \in 1..Len(queries) :
            /\ queries[i].route = route
            /\ queries[i].scope = Store => queries[i].id = ss.storeID
            /\ queries[i].scope = Website => queries[i].id = ss.websiteID
            /\ queries[i].scope = Default => queries[i].id = 0

\* an override is passed and the three queries carry three different IDs
C8_Witness ==
    /\ Returned /\ ovr = <<Store>>
    /\ ss.storeID # ss.websiteID
    /\ Len(queries) = 3
    /\ queries[1].id = ss.storeID /\ queries[2].id = ss.websiteID /\ queries[3].id = 0

\* C9: a service with storeID <= 0 issues no Store query and one with
\* websiteID <= 0 no Website query, whatever the override; with storeID > 0 and
\* websiteID = 0 a Store NotFound is followed by the Default query.
C9_IDGuards ==
    pc = "done" =>
        /\ ss.storeID <= 0 => At(Store) = {}
        /\ ss.websiteID <= 0 => At(Website) = {}
        /\ (ss.storeID > 0 /\ ss.websiteID = 0 /\ At(Store) # {}
              /\ Entry(StorePath) = NoEntry) =>
                 queries = <<StorePath, DefaultPath>>

\* a store without website: the store has no entry, the default answers
C9_Witness ==
    /\ Returned
    /\ ss.storeID > 0 /\ ss.websiteID = 0
    /\ queries = <<StorePath, DefaultPath>>
    /\ v \in Values

\* the backend with the entry of one path replaced
With(p, e) == [db EXCEPT ![p] = e]

\* C10: a lookup reads only the Store(storeID), Website(websiteID) and Default
\* paths of its route, and its result is the same on every backend that differs
\* from this one at another store's, another website's path.
C10_TenantIsolation ==
    pc = "done" =>
        /\ \A i \in 1..Len(queries) :
              queries[i] \in {StorePath, WebsitePath, DefaultPath}
        /\ \A p \in StoredPaths \ {StorePath, WebsitePath, DefaultPath} :
              \A e \in Values \cup {NoEntry, IOError} :
                 \E T \in Types :
                    lookup(ss, T, route, ovr, With(p, e)) =
                        [queries |-> queries, v |-> v, err |-> err, step |-> step]

\* another store holds a value that the lookup of this store does not return
C10_Witness ==
    /\ Returned
    /\ ss.storeID > 0
    /\ \E p \in StoredPaths :
          /\ p.scope = Store /\ p.id # ss.storeID
          /\ db[p] = "DE"
    /\ queries[1] = StorePath
    /\ v = "US"

\* C11: a lookup called with a malformed route returns the route's error and
\* has issued no query at all, for every service and every override.
C11_MalformedRouteNoQuery ==
    (pc = "done" /\ ~IsValidRoute(route)) =>
        /\ queries = <<>>
        /\ err = InvalidRoute
        /\ v = Zero

\* a store-bound service with entries in the backend, called with an override
C11_Witness ==
    /\ pc = "done" /\ ~IsValidRoute(route)
    /\ ss.storeID > 0 /\ ss.websiteID > 0 /\ ovr = <<Store>>
    /\ \E p \in StoredPaths : db[p] \in Values
    /\ queries = <<>> /\ err = InvalidRoute

\* C12: Scope() returns (Store, storeID) if storeID > 0, else (Website,
\* websiteID) if websiteID > 0, else (Default, 0), and its level is the scope a
\* lookup without override (or with Absent) evaluates the permissions with.
C12_ScopeOfService ==
    (pc = "got" /\ step = "Scope") =>
        /\ got = IF ss.storeID > 0 THEN <<Store, ss.storeID>>
                 ELSE IF ss.websiteID > 0 THEN <<Website, ss.websiteID>>
                 ELSE <<Default, 0>>
        /\ effectiveScope(ss, <<>>) = got[1]
        /\ effectiveScope(ss, <<Absent>>) = got[1]

\* a website-bound service whose store ID is negative
C12_Witness ==
    /\ pc = "got" /\ step = "Scope"
    /\ ss.storeID < 0 /\ ss.websiteID = 2
    /\ got = <<Website, 2>>

\* C13: Parent() returns (Website, websiteID) if storeID > 0 and (Default, 0)
\* otherwise, a level never more specific than the level of Scope().
C13_ParentOfService ==
    (pc = "got" /\ step = "Parent") =>
        /\ got = IF ss.storeID > 0 THEN <<Website, ss.websiteID>> ELSE <<Default, 0>>
        /\ got[1] <= Scope(ss)[1]

\* the parent of a website-bound service is the default scope
C13_Witness ==
    /\ pc = "got" /\ step = "Parent"
    /\ ss.storeID = 0 /\ ss.websiteID > 0
    /\ got = <<Default, 0>>

\* C14: every pair returned by Scope() or Parent() is a well-formed binding:
\* an ID > 0 with Website or Store, the ID 0 with Default.
C14_WellFormedBinding ==
    pc = "got" =>
        /\ got[1] \in {Website, Store} => got[2] > 0
        /\ got[1] = Default => got[2] = 0

\* C15: the six typed methods run one algorithm: on the same service, route,
\* override and backend each of them issues the queries of the lookup that has
\* returned and returns from the same step.
C15_SameAlgorithm ==
    pc = "done" =>
        \A T \in Types :
            \E res \in {lookup(ss, T, route, ovr, db)} :
                res.queries = queries /\ res.step = step

\* a lookup answered by the website after the store had no entry
C15_Witness ==
    /\ Returned
    /\ step = "website" /\ queries = <<StorePath, WebsitePath>>
    /\ err = nil /\ v \in Values

C17_OneReadReturned ==
    Returned =>
        /\ Len(reads) > 0
        /\ Len(reads) = Len(queries)
        /\ \E last \in {reads[Len(reads)]} :
              /\ last.p \in {StorePath, WebsitePath, DefaultPath}
              /\ last.p = queries[Len(queries)]
              /\ last.p.scope = Store => ss.storeID > 0
              /\ last.p.scope = Website => ss.websiteID > 0
              /\ last.e \in Values => v = last.e /\ err = nil
              /\ last.e = NoEntry => v = Zero /\ err = NotFound
              /\ last.e = IOError => v = Zero /\ err = BackendFailure
              /\ last.p.scope \in {Store, Website} => last.e # NoEntry

\* the store had no entry when read and holds a value when the lookup returns
\* the default's
C17_Witness ==
    /\ Returned
    /\ step = "default"
    /\ reads[1] = [p |-> StorePath, e |-> NoEntry]
    /\ Entry(StorePath) = "DE"
    /\ v = "US"

C19_MockPriority ==
    ret.op \in MockTypes =>
        LET stored == ret.p \in DOMAIN mr.db /\ mr.db[ret.p] # NilValue
            a == IF stored THEN indirect(mr.db[ret.p]) ELSE NilValue
            f == mr.F[ret.op]
        IN  IF stored
            THEN /\ ret.fcalls = 0
                 /\ ret.v.t = KindOf(ret.op)
                 /\ ret.err \in {nil, ConvError}
                 /\ ret.op = "String" => [v |-> ret.v, err |-> ret.err] = ToStringE(a)
                 /\ ret.op = "Bool" => [v |-> ret.v, err |-> ret.err] = ToBoolE(a)
                 /\ ret.op = "Float64" => [v |-> ret.v, err |-> ret.err] = ToFloat64E(a)
                 /\ ret.op = "Int" => [v |-> ret.v, err |-> ret.err] = ToIntE(a)
                 /\ ret.op = "Time" => [v |-> ret.v, err |-> ret.err] = ToTimeE(a)
            ELSE IF f # Unset
            THEN /\ ret.fcalls = 1
                 /\ [v |-> ret.v, err |-> ret.err] = applyF(f, ret.op, ret.p)
            ELSE /\ ret.fcalls = 0
                 /\ ret.err = ErrKeyNotFound
                 /\ ret.v \in { Val("string", ""), Val("bool", "false"),
                                Val("float64", "0"), Val("int", "0"),
                                Val("time", "0001") }
                 /\ ret.v.t = KindOf(ret.op)

\* Bool of the Store path, which holds the string "1", with FBool set and a
\* value at the Default path as well: true, and FBool was not called
C19_Witness ==
    /\ ret.op = "Bool"
    /\ ret.p.scope = Store
    /\ mr.F["Bool"] = "byPath"
    /\ ret.p \in DOMAIN mr.db /\ mr.db[ret.p] = Val("*string", "1")
    /\ ret.v = Val("bool", "true") /\ ret.err = nil
    /\ ret.fcalls = 0

\* C20: a request served by WithRequestID that carries a non-empty X-Request-Id
\* leaves with that value in the response header and without a call of NewID;
\* one without the header leaves with the ID one call of NewID returned; in both
\* cases the wrapped handler ran once, with the header already set.
C20_RequestIDPassedThrough ==
    \A q \in Requests :
        /\ reqs[q].pc # "done" => reqs[q].calls = 0
        /\ reqs[q].pc \in {"none", "get", "newid", "set"} => reqs[q].out = <<>>
        /\ reqs[q].pc = "done" =>
              /\ reqs[q].calls = 1
              /\ reqs[q].seen = reqs[q].out
              /\ reqs[q].out # <<>>
              /\ IF reqs[q].in # ""
                 THEN /\ reqs[q].out = <<reqs[q].in>>
                      /\ reqs[q].newIDs = 0
                 ELSE /\ reqs[q].newIDs = 1
                      /\ \E n \in 1..reqID :
                            reqs[q].out = <<prefix>> \o FormatInt(n)

\* one request passed its header through while the other got the second new ID
C20_Witness ==
    /\ reqs[1].pc = "done" /\ reqs[1].in = "abc" /\ reqs[1].out = <<"abc">>
    /\ reqs[2].pc = "done" /\ reqs[2].in = ""
    /\ reqs[2].out = <<prefix, "2">>
    /\ reqID = 2

\* C21: however concurrent calls of NewID interleave, on one or on several
\* instances, the counter values handed out are pairwise distinct and are
\* exactly 1..n after n calls, so no two returned IDs with the same prefix are
\* equal.
C21_DistinctIDs ==
    LET inFlight == {c \in Requests : callers[c].pc = "format"}
        suffix(k) == SubSeq(issued[k].id, 2, Len(issued[k].id))
    IN  /\ \A k, l \in 1..Len(issued) : k # l => suffix(k) # suffix(l)
        /\ \A k, l \in 1..Len(issued) :
              (k # l /\ issued[k].id[1] = issued[l].id[1]) => issued[k].id # issued[l].id
        /\ \A c, d \in inFlight : c # d => callers[c].n # callers[d].n
        /\ \A c \in inFlight, k \in 1..Len(issued) : FormatInt(callers[c].n) # suffix(k)
        /\ { suffix(k) : k \in 1..Len(issued) } \cup { FormatInt(callers[c].n) : c \in inFlight }
              = { FormatInt(m) : m \in 1..reqID }
        /\ reqID = Len(issued) + Cardinality(inFlight)

\* two callers added to the counter before either returned, on two instances
\* with the same prefix, and the later add returned first
C21_Witness ==
    /\ Len(issued) = 2
    /\ issued[1].inst # issued[2].inst
    /\ prefixOf["g1"] = prefixOf["g2"] /\ prefixOf["g1"] # ""
    /\ issued[1].id = <<prefixOf["g1"], "2">>
    /\ issued[2].id = <<prefixOf["g1"], "1">>

\* C22: the JWT middleware calls the wrapped handler only for a request whose
\* token was parsed without error, is valid and was not in the blacklist; a
\* request that failed one of these checks has the error handler served with
\* the error in the context, and the wrapped handler is not called for it.
C22_OnlyValidTokensPass ==
    /\ jwt.hf > 0 =>
          jwt.parsed = "ok" /\ jwt.valid /\ ~jwt.listed /\ jwt.ctxErr = ""
    /\ (jwt.pc = "done" /\ (jwt.parsed = "err" \/ (jwt.parsed = "ok" /\ ~jwt.valid)
                            \/ jwt.listed)) =>
          /\ jwt.hf = 0
          /\ jwt.ehDefault + jwt.ehScope = 1
          /\ jwt.ctxErr \in {"ParseFromRequest", "TokenInvalid", "TokenBlacklisted"}
          /\ jwt.parsed = "err" <=> jwt.ctxErr = "ParseFromRequest"
          /\ jwt.listed <=> jwt.ctxErr = "TokenBlacklisted"

\* a token parsed without error but not valid is turned away by the scope's
\* error handler
C22_Witness ==
    /\ jwt.pc = "done"
    /\ jwt.parsed = "ok" /\ ~jwt.valid
    /\ jwt.ctxErr = "TokenInvalid"
    /\ jwt.ehScope = 1 /\ jwt.hf = 0

\* C26: the JWT middleware serves every request with exactly one continuation,
\* once: the wrapped handler, or an error handler, which is the scope
\* configuration's if the configuration was loaded and has one, else the
\* default scope's; never both and never none.
C26_OneContinuation ==
    /\ jwt.pc # "done" => jwt.hf + jwt.ehDefault + jwt.ehScope = 0
    /\ jwt.pc = "done" =>
          /\ jwt.hf + jwt.ehDefault + jwt.ehScope = 1
          /\ jwt.ehScope = 1 => jwt.cfgLoaded /\ jwt.cfgHandlerSet
          /\ jwt.ehDefault = 1 => ~(jwt.cfgLoaded /\ jwt.cfgHandlerSet)
          /\ jwt.hf = 0 <=> jwt.ctxErr # ""

\* the configuration could not be loaded and the default scope's handler answered
C26_Witness ==
    /\ jwt.pc = "done"
    /\ jwt.reqStore # 0 /\ ~jwt.cfgLoaded
    /\ jwt.ctxErr = "ConfigByScopedGetter"
    /\ jwt.ehDefault = 1 /\ jwt.ehScope = 0 /\ jwt.hf = 0

\* C27: a valid token that is not blacklisted and names no store (NotFound)
\* goes to the wrapped handler with the token in the context and the requested
\* store as it was; the requested store of the context is replaced only by a
\* store whose ID differs from the requested store's; every other error of
\* ScopeOptionFromClaim or RequestedStore goes to the error handler.
C27_StoreFromToken ==
    /\ jwt.ctxReplaced => jwt.newStore # jwt.reqStore /\ jwt.ctxStore = jwt.newStore
    /\ ~jwt.ctxReplaced /\ jwt.pc \notin {"idle", "provider"} => jwt.ctxStore = jwt.reqStore
    /\ jwt.pc = "done" =>
          /\ jwt.claim = "NotFound" =>
                jwt.hf = 1 /\ jwt.ctxToken /\ ~jwt.ctxReplaced /\ jwt.ctxErr = ""
          /\ jwt.claim = "err" =>
                jwt.hf = 0 /\ jwt.ehDefault + jwt.ehScope = 1
                /\ jwt.ctxErr = "ScopeOptionFromClaim"
          /\ (jwt.claim = "ok" /\ jwt.newStore = 0) =>
                jwt.hf = 0 /\ jwt.ehDefault + jwt.ehScope = 1
                /\ jwt.ctxErr = "RequestedStore"
          /\ (jwt.claim = "ok" /\ jwt.newStore # 0) =>
                /\ jwt.hf = 1 /\ jwt.ctxToken
                /\ jwt.ctxReplaced <=> jwt.newStore # jwt.reqStore

\* the token names the store the request already has: the context keeps it
C27_Witness ==
    /\ jwt.pc = "done"
    /\ jwt.claim = "ok" /\ jwt.newStore = 2 /\ jwt.reqStore = 2
    /\ jwt.hf = 1 /\ jwt.ctxToken /\ ~jwt.ctxReplaced /\ jwt.ctxStore = 2

\* the tokens that open a parenthesised group, and those among them that
\* separate it from the group before
GroupTokens == {"(", " AND (", "(1=0)", " AND (1=0)"}
AndTokens == {" AND (", " AND (1=0)"}

\* the placeholders a token holds
Placeholders(tok) == IF tok \in {" = ?", " IN ?", "id = ?"} THEN 1 ELSE 0

RECURSIVE PlaceholdersIn(_)
PlaceholdersIn(sql) ==
    IF sql = <<>> THEN 0 ELSE Placeholders(Head(sql)) + PlaceholdersIn(Tail(sql))

\* C28: in the WHERE clause written for any sequence of fragments every two
\* consecutive groups are separated by " AND ": the first group written has no
\* separator, every later one has, so the separators are one fewer than the
\* groups, also when (1=0) of an empty slice comes first.
C28_GroupsJoinedByAnd ==
    (wout.called /\ ~wout.panicked) =>
        LET groups == {i \in 1..Len(wout.sql) : wout.sql[i] \in GroupTokens}
            ands == {i \in groups : wout.sql[i] \in AndTokens}
        IN  groups # {} =>
              /\ Cardinality(ands) = Cardinality(groups) - 1
              /\ \A i \in groups :
                    i \in ands <=> \E j \in groups : j < i

\* C29: writeEqualityMapToSQL renders every key and value by the value's shape
\* (nil or nil slice: IS NULL, no argument; empty slice: 1=0, no argument; one
\* element: = ? and the element; more: IN ? and the slice; else = ? and the
\* value), arrays as slices, and appends as many arguments as it writes "?".
C29_EqualityMapRendering ==
    wout.called =>
        /\ ~wout.panicked
        /\ Len(wout.args) = PlaceholdersIn(wout.sql)
        /\ (Len(frags) = 1 /\ frags[1].Condition = "" /\ Len(frags[1].EqualityMap) = 1) =>
              LET k == frags[1].EqualityMap[1].k
                  val == frags[1].EqualityMap[1].v
                  col == <<"(", Backtick, k, Backtick>>
              IN  IF val.kind = "nil" \/ (val.kind = "slice" /\ val.isNil)
                  THEN wout.sql = col \o <<" IS NULL", ")">> /\ wout.args = <<>>
                  ELSE IF val.kind = "scalar"
                  THEN wout.sql = col \o <<" = ?", ")">> /\ wout.args = <<val>>
                  ELSE IF Len(val.elems) = 0
                  THEN wout.sql = <<"(1=0)">> /\ wout.args = <<>>
                  ELSE IF Len(val.elems) = 1
                  THEN wout.sql = col \o <<" = ?", ")">>
                       /\ wout.args = <<Scalar(val.elems[1])>>
                  ELSE wout.sql = col \o <<" IN ?", ")">> /\ wout.args = <<val>>

\* how often x is in seq
Count(seq, x) == Cardinality({n \in 1..Len(seq) : seq[n] = x})

\* a listener added after one that stops the propagation
Blocked(j) == \E k \in 1..(j - 1) : del.Listeners[k].kind = "stop"

\* how often the listener at position j has been applied after del.calls calls
Applications(j) ==
    IF Blocked(j) THEN 0
    ELSE IF del.Listeners[j].Once THEN (IF del.calls > 0 THEN 1 ELSE 0)
    ELSE del.calls

\* C23: in every dispatch of OnBeforeToSQL, on the first ToSQL and on every
\* later one, the listeners are invoked in the order they were added and none
\* is invoked after one that set PropagationStopped; when ToSQL has returned,
\* the listeners invoked were those up to the stopping one that were due.
C23_StopPropagation ==
    /\ \A a, b \in 1..Len(del.log) : a < b =>
          /\ del.log[a] < del.log[b]
          /\ del.Listeners[del.log[a]].kind # "stop"
    /\ (del.pc = "idle" /\ del.calls > 0) =>
          {del.log[a] : a \in 1..Len(del.log)} =
              {j \in 1..Len(del.Listeners) :
                  ~Blocked(j) /\ (del.Listeners[j].Once => del.calls = 1)}

\* a second ToSQL has returned that stopped at the second of three listeners
C23_Witness ==
    /\ del.pc = "idle"
    /\ del.calls = 2
    /\ Len(del.Listeners) = 3
    /\ del.Listeners[2].kind = "stop"
    /\ del.log = <<1, 2>>

\* C24: after any number of ToSQL calls the clause of a listener with Once is
\* once in the statement and the clause of a listener without Once is there
\* once per call, in the SQL text and, for a condition, in the arguments.
C24_OnceAndRepetitive ==
    del.pc = "idle" =>
        \A j \in 1..Len(del.Listeners) :
            IF del.Listeners[j].kind = "where"
            THEN /\ Count(del.sql, Conditions[j]) = Applications(j)
                 /\ Count(del.args, Scalar(j)) = Applications(j)
            ELSE Count(del.sql, Columns[j]) = Applications(j)

\* two ToSQL calls with a Once condition and a repetitive condition
C24_Witness ==
    /\ del.pc = "idle"
    /\ del.calls = 2
    /\ \E j, k \in 1..Len(del.Listeners) :
          /\ del.Listeners[j].kind = "where" /\ del.Listeners[j].Once
          /\ del.Listeners[k].kind = "where" /\ ~del.Listeners[k].Once
          /\ Count(del.args, Scalar(j)) = 1
          /\ Count(del.args, Scalar(k)) = 2

\* the counter is never negative, every started generator is counted until its
\* run() has called Done, which it does once, and main is not past Wait before
\* every generator has returned
WaitGroupSafe ==
    /\ wg >= 0
    /\ wg = Cardinality({g \in 1..Len(gens) : gens[g].pc # "returned"})
    /\ \A g \in 1..Len(gens) :
          /\ gens[g].dones <= 1
          /\ gens[g].pc = "returned" <=> gens[g].dones = 1
    /\ mainPC = "returned" => \A g \in 1..Len(gens) : gens[g].pc = "returned"

\* main is at wg.Wait() and every run() has returned
AllReturned ==
    /\ mainPC = "wait"
    /\ \A g \in 1..Len(gens) : gens[g].pc = "returned"

\* C30: main does not pass wg.Wait() before every started generator finished
\* run(): each wg.Add(1) is made by main before Wait, each run() calls Done
\* once, the counter is never negative, and under fair scheduling main
\* terminates when every run() has returned (or the process ends in LogFatal).
C30_WaitForGenerators ==
    /\ []WaitGroupSafe
    /\ AllReturned ~> (mainPC = "returned")
    /\ <>(mainPC \in {"returned", "exited"})

\* main returned after two or more generators
C30_Witness ==
    /\ mainPC = "returned"
    /\ Len(gens) >= 2
    /\ wg = 0

\* C25: a lookup without override and one with the override Absent make the
\* same queries and return the same result, both permitted by the scope the
\* service is bound to; and of several override values only the first counts.
C25_AbsentIsNoOverride ==
    /\ cmp.case # "none" => cmp.first = cmp.second
    /\ cmp.case = "absent" => cmp.scopes = <<cmp.bound, cmp.bound>>
    /\ cmp.case = "more" => cmp.scopes[1] = cmp.scopes[2]

\* the store's own value was found, without override and with Absent
C25_Witness ==
    /\ cmp.case = "absent"
    /\ cmp.bound = Store
    /\ cmp.first.err = nil
    /\ Len(cmp.first.queries) = 1
    /\ cmp.first.queries[1].scope = Store

====
